---- MODULE Spec2Model ----
(***************************************************************************)
(* A state-machine model of the purchase-ledger store                      *)
(* (src/store/useShoppingStore.ts) and of its persistence collaborator     *)
(* (fetchData / saveData).                                                 *)
(*                                                                         *)
(* Conventions                                                             *)
(*  - A JavaScript object is a function from its own keys to values; a key *)
(*    that is present and holds `undefined` is kept apart from a key that  *)
(*    is absent (JSON.stringify drops the former).                         *)
(*  - A Date is an integer instant, TicksPerDay instants to a calendar     *)
(*    day; DayOf gives the calendar day.                                   *)
(*  - Ids built from Date.now() are the clock value itself (vendor ids) or *)
(*    a tuple <<now>> / <<now, index>> (item ids).                         *)
(***************************************************************************)
EXTENDS Integers, Sequences, FiniteSets, TLC

VARIABLES
    currentUser,        \* AuthSlice.currentUser: Null or a user id
    isHydrating,        \* store flag
    lists,              \* Ledger: sequence of ShoppingList
    customCategories,   \* Ledger: sequence of category names
    vendors,            \* Ledger: sequence of Vendor
    categoryVendorMap,  \* Ledger: category -> vendor id
    itemInfoMap,        \* Ledger: item name -> [unit, category]
    debounceTimer,      \* the pending setTimeout and the state it captured
    fetching,           \* number of fetchData() calls in flight
    remote,             \* the remote document: Absent or a JSON text
    now,                \* Date.now()
    today,              \* the calendar day of `new Date()`
    op,                 \* the operation performed by the last step, its arguments and result
    saved,              \* the saveData() call issued by the last step, if any
    owed,               \* history: a mutation made with a session and no hydration is in no issued save
    carried,            \* history: the Ledger still carries every owed mutation
    lost,               \* history: an owed mutation left the Ledger and every pending save
    created,            \* history: ids createList was called for, with no deleteList of the id since
    burst,              \* history: the scheduling mutations made since the timer last fired
    quiet,              \* history: logged out, with no login, mutation, import or hydration call since
    nops                \* number of ledger operations performed (bounded exploration)

ledger == <<lists, customCategories, vendors, categoryVendorMap, itemInfoMap>>
vars == <<currentUser, isHydrating, lists, customCategories, vendors, categoryVendorMap,
          itemInfoMap, debounceTimer, fetching, remote, now, today, op, saved, owed,
          carried, lost, created, burst, quiet, nops>>

----------------------------------------------------------------------------
(* Bounds *)

MaxDay == 2
TicksPerDay == 2
MaxNow == 1
MaxFetch == 1
MaxOps == 3

QMaxLists == 2      \* lists in a Ledger the read-only engines are applied to
CycleDays == 4      \* days between the early and the late purchases of those Ledgers
MaxElapsed == 6     \* days from the late purchases to today

MonthDays == 30     \* days in a month of the calendar new Date(year, month, 1) follows
YearMonths == 12    \* months in a year of that calendar

Days == 1..MaxDay
\* the start of each day, and a later instant of the first
Dates == { d * TicksPerDay : d \in Days } \cup { TicksPerDay + 1 }

----------------------------------------------------------------------------
(* Values *)

Null == "null"
User1 == "user-1"
Undefined == 0 - 1

Pending == "Pending"
Bought == "Bought"
UnitPiece == "piece"
Other == "other"
DEFAULT_CATEGORIES == <<"dairy", "other">>

EmptyMap == [k \in {} |-> 0]

emptyState ==
    [lists |-> <<>>, customCategories |-> <<>>, vendors |-> <<>>,
     categoryVendorMap |-> EmptyMap, itemInfoMap |-> EmptyMap]

NoTimer == [pending |-> FALSE]
NoSave == [issued |-> FALSE]
Absent == [present |-> FALSE]

----------------------------------------------------------------------------
(* JavaScript helpers *)

\* obj.key, undefined when the key is absent
Get(obj, key) == IF key \in DOMAIN obj THEN obj[key] ELSE Undefined

\* { ...obj, ...updates }
Spread(obj, updates) ==
    [k \in DOMAIN obj \cup DOMAIN updates |->
        IF k \in DOMAIN updates THEN updates[k] ELSE obj[k]]

\* const { key, ...rest } = obj
Rest(obj, key) == [k \in DOMAIN obj \ {key} |-> obj[k]]

\* { ...map, [key]: value }
Put(map, key, value) ==
    [k \in DOMAIN map \cup {key} |-> IF k = key THEN value ELSE map[k]]

\* delete map[key]
Delete(map, key) == [k \in DOMAIN map \ {key} |-> map[k]]

Range(s) == { s[i] : i \in DOMAIN s }

\* String.prototype.trim, on the strings the model uses
Trim(s) ==
    CASE s = " Ali " -> "Ali"
      [] s = " ali " -> "ali"
      [] s = " " -> ""
      [] s = " milk" -> "milk"
      [] OTHER -> s

\* String.prototype.toLowerCase, on the strings the model uses
ToLowerCase(s) ==
    CASE s = "Ali" -> "ali"
      [] s = " Ali " -> " ali "
      [] s = "Bob" -> "bob"
      [] s = "Mehrnoosh" -> "mehrnoosh"
      [] OTHER -> s

\* x || dflt for a number: 0 and undefined are falsy
OrNum(x, dflt) == IF x = Undefined \/ x = 0 THEN dflt ELSE x

\* x || dflt for a string: "" is falsy
OrStr(x, dflt) == IF x = "" THEN dflt ELSE x

----------------------------------------------------------------------------
(* Calendar primitives (lib/jalali) *)

\* the calendar day an instant falls on
DayOf(date) == date \div TicksPerDay

\* toJalaliDateString(date.toISOString()): the date at day granularity
toJalaliDateString(date) == DayOf(date)

\* toJalaliDateString(iso, { format: 'long' }) wrapped by t.todaysShoppingList
todaysShoppingList(date) == <<"todaysShoppingList", DayOf(date)>>

\* parseJalaliDate: a Date at the start of the day, or Undefined (null) when unparseable
\* date texts are day numbers; this one stands for any text that does not parse
InvalidDateText == Undefined
\* the sentinel addOcrPurchase returns (list names are tuples here)
InvalidDate == <<"Invalid Date">>
parseJalaliDate(text) == IF text = InvalidDateText THEN Undefined ELSE text * TicksPerDay

\* new Date(); setHours(0,0,0,0)
TodayMidnight == today * TicksPerDay

----------------------------------------------------------------------------
(* JSON *)

\* keys whose value may be `undefined` in this model (all hold numbers otherwise)
OptionalNumberKeys == {"estimatedPrice", "vendorId", "paidPrice", "purchasedAmount", "amount"}

IsUndefinedAt(obj, k) == k \in OptionalNumberKeys /\ obj[k] = Undefined

\* JSON.stringify followed by JSON.parse of one object: own keys holding undefined are dropped
JsonObject(obj) == [k \in {x \in DOMAIN obj : ~IsUndefinedAt(obj, x)} |-> obj[k]]

JsonList(list) ==
    [k \in DOMAIN list |->
        IF k = "items" THEN [i \in DOMAIN list.items |-> JsonObject(list.items[i])]
        ELSE list[k]]

\* the document JSON.stringify(data, null, 2) denotes
JsonStringify(data) ==
    [parses |-> TRUE, listsIsArray |-> TRUE,
     data |-> [k \in DOMAIN data |->
                 IF k = "lists" THEN [i \in DOMAIN data.lists |-> JsonList(data.lists[i])]
                 ELSE data[k]]]

\* a text JSON.parse rejects; a text that parses to an object whose lists is no array
GarbageText == [parses |-> FALSE]
NoListsText == [parses |-> TRUE, listsIsArray |-> FALSE]

----------------------------------------------------------------------------
(* The store's state as one object: get() *)

Ledger ==
    [lists |-> lists, customCategories |-> customCategories, vendors |-> vendors,
     categoryVendorMap |-> categoryVendorMap, itemInfoMap |-> itemInfoMap]

\* get() evaluated in the state a step leads to
GetStateNext ==
    [currentUser |-> currentUser', isHydrating |-> isHydrating',
     lists |-> lists', customCategories |-> customCategories', vendors |-> vendors',
     categoryVendorMap |-> categoryVendorMap', itemInfoMap |-> itemInfoMap']

\* the guard, had the callback read the store when it runs
ShouldSave_live(state) == ~(currentUser = Null \/ isHydrating)
\* the guard of the timer callback, on the state captured when it was scheduled
ShouldSave(state) == ~(state.currentUser = Null \/ state.isHydrating)

dataToSave(state) ==
    [lists |-> state.lists, customCategories |-> state.customCategories,
     vendors |-> state.vendors, categoryVendorMap |-> state.categoryVendorMap,
     itemInfoMap |-> state.itemInfoMap]

\* debouncedSaveData without the clearTimeout: a pending timer keeps its callback
debouncedSaveData_leading(state, carries) ==
    IF debounceTimer.pending THEN debounceTimer
    ELSE [pending |-> TRUE, state |-> state, carries |-> carries]

\* clearTimeout(debounceTimer); debounceTimer = setTimeout(callback closing over `state`)
debouncedSaveData(state, carries) == [pending |-> TRUE, state |-> state, carries |-> carries]

----------------------------------------------------------------------------
(* Mutation layer, as functions of the Ledger L.  Each returns the Ledger    *)
(* after the call (L), the value returned (ret) and whether                  *)
(* debouncedSaveData was called (sched).                                     *)

HasList(ls, listId) == \E i \in DOMAIN ls : ls[i].id = listId

\* lists.find(l => l.id === listId)
FindList(ls, listId) ==
    ls[CHOOSE i \in DOMAIN ls : ls[i].id = listId /\ \A j \in 1..(i - 1) : ls[j].id # listId]

\* createList without the lookup of an existing list
createList_dup(L, date) ==
    [L |-> [L EXCEPT !.lists = Append(@,
                [id |-> toJalaliDateString(date), name |-> todaysShoppingList(date),
                 createdAt |-> date, items |-> <<>>])],
     ret |-> toJalaliDateString(date), sched |-> TRUE]

createList(L, date) ==
    LET listId == toJalaliDateString(date)
        newList == [id |-> listId, name |-> todaysShoppingList(date),
                    createdAt |-> date, items |-> <<>>]
    IN  IF HasList(L.lists, listId)
        THEN [L |-> L, ret |-> FindList(L.lists, listId).id, sched |-> FALSE]
        ELSE [L |-> [L EXCEPT !.lists = Append(@, newList)], ret |-> listId, sched |-> TRUE]

\* updateList appending the list when no list has the id
updateList_upsert(L, listId, updatedList) ==
    [L |-> [L EXCEPT !.lists =
              IF HasList(L.lists, listId)
              THEN [i \in DOMAIN L.lists |->
                      IF L.lists[i].id = listId THEN updatedList ELSE L.lists[i]]
              ELSE Append(L.lists, updatedList)],
     ret |-> Undefined, sched |-> TRUE]

updateList(L, listId, updatedList) ==
    [L |-> [L EXCEPT !.lists =
              [i \in DOMAIN L.lists |->
                  IF L.lists[i].id = listId THEN updatedList ELSE L.lists[i]]],
     ret |-> Undefined, sched |-> TRUE]

deleteList(L, listId) ==
    [L |-> [L EXCEPT !.lists = SelectSeq(L.lists, LAMBDA list : list.id # listId)],
     ret |-> Undefined, sched |-> TRUE]

updateItem(L, listId, itemId, updates) ==
    [L |-> [L EXCEPT !.lists =
              [i \in DOMAIN L.lists |->
                  IF L.lists[i].id = listId
                  THEN [L.lists[i] EXCEPT !.items =
                          [k \in DOMAIN L.lists[i].items |->
                              IF L.lists[i].items[k].id = itemId
                              THEN Spread(L.lists[i].items[k], updates)
                              ELSE L.lists[i].items[k]]]
                  ELSE L.lists[i]]],
     ret |-> Undefined, sched |-> TRUE]

\* lists.flatMap(list => list.items.map(item => ({ ...item, purchaseDate: new Date(list.createdAt) })))
RECURSIVE FlatPurchases(_)
FlatPurchases(ls) ==
    IF ls = <<>> THEN <<>>
    ELSE [k \in DOMAIN Head(ls).items |->
            Spread(Head(ls).items[k], [purchaseDate |-> Head(ls).createdAt])]
         \o FlatPurchases(Tail(ls))

\* item.paidPrice && item.purchasedAmount
Truthy(x) == x # Undefined /\ x # 0

getLatestPurchaseInfo(L, name, unit) ==
    LET all == FlatPurchases(L.lists)
        hits == { i \in DOMAIN all :
                    /\ all[i].name = name /\ all[i].unit = unit /\ all[i].status = Bought
                    /\ Truthy(Get(all[i], "paidPrice"))
                    /\ Truthy(Get(all[i], "purchasedAmount")) }
        \* sort descending by date (stable), then [0]
        first == CHOOSE i \in hits :
                    \A j \in hits : \/ all[j].purchaseDate < all[i].purchaseDate
                                    \/ (all[j].purchaseDate = all[i].purchaseDate /\ i <= j)
    IN  IF hits # {}
        THEN [pricePerUnit |-> <<all[first].paidPrice, all[first].purchasedAmount>>,
              vendorId |-> Get(all[first], "vendorId"),
              lastAmount |-> all[first].purchasedAmount]
        ELSE EmptyMap

\* addItemFromSuggestion matching a Pending item by name alone
addItemFromSuggestion_byName(L, suggestion, clock, todayDate) ==
    LET made == createList(L, todayDate)
        listId == made.ret
        list == FindList(made.L.lists, listId)
        alreadyExists == \E k \in DOMAIN list.items :
                            /\ list.items[k].name = suggestion.name
                            /\ list.items[k].status = Pending
        latestInfo == getLatestPurchaseInfo(made.L, suggestion.name, suggestion.unit)
        lastAmount == OrNum(Get(latestInfo, "lastAmount"), 1)
        newItem == [id |-> <<clock>>, name |-> suggestion.name, amount |-> lastAmount,
                    unit |-> suggestion.unit, category |-> suggestion.category,
                    status |-> Pending,
                    estimatedPrice |-> IF "pricePerUnit" \in DOMAIN latestInfo
                                       THEN latestInfo.pricePerUnit[1]
                                       ELSE Undefined]
        done == updateList(made.L, listId, [list EXCEPT !.items = Append(@, newItem)])
    IN  IF alreadyExists
        THEN [L |-> made.L, ret |-> FALSE, sched |-> made.sched]
        ELSE [L |-> done.L, ret |-> TRUE, sched |-> TRUE]

addItemFromSuggestion(L, suggestion, clock, todayDate) ==
    LET made == createList(L, todayDate)
        listId == made.ret
        list == FindList(made.L.lists, listId)
        alreadyExists == \E k \in DOMAIN list.items :
                            /\ list.items[k].name = suggestion.name
                            /\ list.items[k].unit = suggestion.unit
                            /\ list.items[k].status = Pending
        latestInfo == getLatestPurchaseInfo(made.L, suggestion.name, suggestion.unit)
        lastAmount == OrNum(Get(latestInfo, "lastAmount"), 1)
        \* pricePerUnit * (lastAmount || 1) = (paidPrice / purchasedAmount) * purchasedAmount
        newItem == [id |-> <<clock>>, name |-> suggestion.name, amount |-> lastAmount,
                    unit |-> suggestion.unit, category |-> suggestion.category,
                    status |-> Pending,
                    estimatedPrice |-> IF "pricePerUnit" \in DOMAIN latestInfo
                                       THEN latestInfo.pricePerUnit[1]
                                       ELSE Undefined]
        done == updateList(made.L, listId, [list EXCEPT !.items = Append(@, newItem)])
    IN  IF alreadyExists
        THEN [L |-> made.L, ret |-> FALSE, sched |-> made.sched]
        ELSE [L |-> done.L, ret |-> TRUE, sched |-> TRUE]

addVendor(L, vendorData, clock) ==
    [L |-> [L EXCEPT !.vendors = Append(@, Spread([id |-> clock], vendorData))],
     ret |-> clock, sched |-> TRUE]

updateVendor(L, vendorId, updates) ==
    [L |-> [L EXCEPT !.vendors =
              [i \in DOMAIN L.vendors |->
                  IF L.vendors[i].id = vendorId
                  THEN Spread(L.vendors[i], updates) ELSE L.vendors[i]]],
     ret |-> Undefined, sched |-> TRUE]

\* deleteVendor removing the items that referenced the vendor
deleteVendor_dropItems(L, vendorId) ==
    [L |-> [L EXCEPT
              !.vendors = SelectSeq(L.vendors, LAMBDA v : v.id # vendorId),
              !.lists = [i \in DOMAIN L.lists |->
                          [L.lists[i] EXCEPT !.items =
                              SelectSeq(L.lists[i].items,
                                        LAMBDA item : Get(item, "vendorId") # vendorId)]]],
     ret |-> Undefined, sched |-> TRUE]

deleteVendor(L, vendorId) ==
    [L |-> [L EXCEPT
              !.vendors = SelectSeq(L.vendors, LAMBDA v : v.id # vendorId),
              !.lists = [i \in DOMAIN L.lists |->
                          [L.lists[i] EXCEPT !.items =
                              [k \in DOMAIN L.lists[i].items |->
                                  IF Get(L.lists[i].items[k], "vendorId") = vendorId
                                  THEN Spread(L.lists[i].items[k], [vendorId |-> Undefined])
                                  ELSE L.lists[i].items[k]]]]],
     ret |-> Undefined, sched |-> TRUE]

findOrCreateVendor(L, vendorName, clock) ==
    LET trimmedName == Trim(vendorName)
        hits == { i \in DOMAIN L.vendors :
                    ToLowerCase(L.vendors[i].name) = ToLowerCase(trimmedName) }
        existingVendor == L.vendors[CHOOSE i \in hits : \A j \in hits : i <= j]
    IN  IF vendorName = "" \/ Trim(vendorName) = ""
        THEN [L |-> L, ret |-> Undefined, sched |-> FALSE]
        ELSE IF hits # {}
             THEN [L |-> L, ret |-> existingVendor.id, sched |-> FALSE]
             ELSE addVendor(L, [name |-> trimmedName], clock)

updateCategoryVendorMap(L, category, vendorId) ==
    [L |-> [L EXCEPT !.categoryVendorMap = Put(@, category, vendorId)],
     ret |-> Undefined, sched |-> TRUE]

\* updateMasterItem matching the items by name alone
updateMasterItem_byName(L, originalName, originalUnit, updates) ==
    LET newLists ==
            [i \in DOMAIN L.lists |->
                [L.lists[i] EXCEPT !.items =
                    [k \in DOMAIN L.lists[i].items |->
                        IF L.lists[i].items[k].name = originalName
                        THEN Spread(L.lists[i].items[k], updates)
                        ELSE L.lists[i].items[k]]]]
        pruned == IF originalName # updates.name /\ originalName \in DOMAIN L.itemInfoMap
                  THEN Delete(L.itemInfoMap, originalName)
                  ELSE L.itemInfoMap
        newItemInfoMap ==
            Put(pruned, updates.name, [unit |-> updates.unit, category |-> updates.category])
    IN  [L |-> [L EXCEPT !.lists = newLists, !.itemInfoMap = newItemInfoMap],
         ret |-> Undefined, sched |-> TRUE]

updateMasterItem(L, originalName, originalUnit, updates) ==
    LET newLists ==
            [i \in DOMAIN L.lists |->
                [L.lists[i] EXCEPT !.items =
                    [k \in DOMAIN L.lists[i].items |->
                        IF /\ L.lists[i].items[k].name = originalName
                           /\ L.lists[i].items[k].unit = originalUnit
                        THEN Spread(L.lists[i].items[k], updates)
                        ELSE L.lists[i].items[k]]]]
        pruned == IF originalName # updates.name /\ originalName \in DOMAIN L.itemInfoMap
                  THEN Delete(L.itemInfoMap, originalName)
                  ELSE L.itemInfoMap
        newItemInfoMap ==
            Put(pruned, updates.name, [unit |-> updates.unit, category |-> updates.category])
    IN  [L |-> [L EXCEPT !.lists = newLists, !.itemInfoMap = newItemInfoMap],
         ret |-> Undefined, sched |-> TRUE]

\* [...new Set([...DEFAULT_CATEGORIES, ...customCategories])], as a set
allCategories(L) == Range(DEFAULT_CATEGORIES) \cup Range(L.customCategories)

addCustomData(L, item) ==
    LET addCategory == item.category # "" /\ item.category \notin allCategories(L)
        addInfo == item.name # "" /\ item.unit # "" /\ item.category # ""
    IN  [L |-> [L EXCEPT
                  !.customCategories = IF addCategory THEN Append(@, item.category) ELSE @,
                  !.itemInfoMap = IF addInfo
                                  THEN Put(@, Trim(item.name),
                                           [unit |-> item.unit, category |-> item.category])
                                  ELSE @],
         ret |-> Undefined, sched |-> addCategory \/ addInfo]

\* newShoppingItems.forEach(item => { addCustomData(item); updateCategoryVendorMap(...) })
RECURSIVE ForEachNewItem(_, _, _)
ForEachNewItem(L, items, vendorId) ==
    IF items = <<>> THEN [L |-> L, sched |-> FALSE]
    ELSE LET item == Head(items)
             a == addCustomData(L, item)
             b == IF item.category # "" /\ vendorId # Undefined
                  THEN updateCategoryVendorMap(a.L, item.category, vendorId)
                  ELSE [L |-> a.L, sched |-> FALSE]
             r == ForEachNewItem(b.L, Tail(items), vendorId)
         IN  [L |-> r.L, sched |-> a.sched \/ b.sched \/ r.sched]

addOcrPurchase(L, ocrResult, paymentMethod, paymentStatus, vendorName, clock) ==
    LET found == findOrCreateVendor(L, vendorName, clock)
        vendorId == found.ret
        parsedDate == parseJalaliDate(ocrResult.date)
        made == createList(found.L, parsedDate)
        targetListId == made.ret
        targetList == FindList(made.L.lists, targetListId)
        newShoppingItems ==
            [i \in DOMAIN ocrResult.items |->
                [id |-> <<clock, i - 1>>,
                 name |-> ocrResult.items[i].name,
                 amount |-> ocrResult.items[i].quantity,
                 unit |-> OrStr(ocrResult.items[i].unit, UnitPiece),
                 status |-> Bought,
                 category |-> OrStr(ocrResult.items[i].suggestedCategory, Other),
                 paidPrice |-> ocrResult.items[i].price,
                 purchasedAmount |-> ocrResult.items[i].quantity,
                 paymentStatus |-> paymentStatus,
                 paymentMethod |-> paymentMethod,
                 vendorId |-> vendorId]]
        folded == ForEachNewItem(made.L, newShoppingItems, vendorId)
        updatedList == [targetList EXCEPT !.items = @ \o newShoppingItems]
        done == updateList(folded.L, targetListId, updatedList)
    IN  IF parsedDate = Undefined
        THEN [L |-> found.L, ret |-> InvalidDate, sched |-> found.sched]
        ELSE [L |-> done.L, ret |-> targetList.name, sched |-> TRUE]

\* importedData without the removal of receiptImage
importedData_keepImage(data) ==
    [lists |-> data.lists,
     customCategories |-> IF "customCategories" \in DOMAIN data
                          THEN data.customCategories ELSE <<>>,
     vendors |-> IF "vendors" \in DOMAIN data THEN data.vendors ELSE <<>>,
     categoryVendorMap |-> IF "categoryVendorMap" \in DOMAIN data
                           THEN data.categoryVendorMap ELSE EmptyMap,
     itemInfoMap |-> IF "itemInfoMap" \in DOMAIN data THEN data.itemInfoMap ELSE EmptyMap]

\* the object importData builds from a parsed document
importedData(data) ==
    [lists |-> [i \in DOMAIN data.lists |->
                  [data.lists[i] EXCEPT !.items =
                      [k \in DOMAIN data.lists[i].items |->
                          Rest(data.lists[i].items[k], "receiptImage")]]],
     customCategories |-> IF "customCategories" \in DOMAIN data
                          THEN data.customCategories ELSE <<>>,
     vendors |-> IF "vendors" \in DOMAIN data THEN data.vendors ELSE <<>>,
     categoryVendorMap |-> IF "categoryVendorMap" \in DOMAIN data
                           THEN data.categoryVendorMap ELSE EmptyMap,
     itemInfoMap |-> IF "itemInfoMap" \in DOMAIN data THEN data.itemInfoMap ELSE EmptyMap]

\* importData setting the Ledger before it checks that lists is an array
importData_setFirst(L, jsonData) ==
    IF jsonData.parses /\ jsonData.listsIsArray
    THEN [L |-> importedData(jsonData.data), threw |-> FALSE,
          save |-> [issued |-> TRUE, by |-> "importData",
                    data |-> importedData(jsonData.data)]]
    ELSE IF jsonData.parses
    THEN [L |-> [L EXCEPT !.lists = <<>>], threw |-> TRUE, save |-> NoSave]
    ELSE [L |-> L, threw |-> TRUE, save |-> NoSave]

\* importData up to its await: the Ledger it sets and the save it issues, or the error it throws
importData(L, jsonData) ==
    IF jsonData.parses /\ jsonData.listsIsArray
    THEN [L |-> importedData(jsonData.data), threw |-> FALSE,
          save |-> [issued |-> TRUE, by |-> "importData",
                    data |-> importedData(jsonData.data)]]
    ELSE [L |-> L, threw |-> TRUE, save |-> NoSave]

exportData(L) == JsonStringify(L)

----------------------------------------------------------------------------
(* Read-only engines, as functions of the lists *)

Abs(x) == IF x < 0 THEN 0 - x ELSE x

\* Math.round(n / d) for n >= 0, d > 0
RoundDiv(n, d) == (2 * n + d) \div (2 * d)

\* Math.round(Math.abs((a - b) / oneDay))
RoundedDays(a, b) == RoundDiv(Abs(a - b), TicksPerDay)

\* Array.prototype.sort (stable) with comparator (a, b) => a[key] - b[key]
SortAscBy(s, key) ==
    LET rank(i) == Cardinality({ j \in DOMAIN s :
                        s[j][key] < s[i][key] \/ (s[j][key] = s[i][key] /\ j < i) }) + 1
    IN  [r \in DOMAIN s |-> s[CHOOSE i \in DOMAIN s : rank(i) = r]]

\* Array.prototype.sort (stable) with comparator (a, b) => b[key] - a[key]
SortDescBy(s, key) ==
    LET rank(i) == Cardinality({ j \in DOMAIN s :
                        s[j][key] > s[i][key] \/ (s[j][key] = s[i][key] /\ j < i) }) + 1
    IN  [r \in DOMAIN s |-> s[CHOOSE i \in DOMAIN s : rank(i) = r]]

\* the indexes of s, ascending
Indexes(s) == [i \in DOMAIN s |-> i]

\* `${item.name}-${item.unit}`
HistoryKey(item) == item.name \o "-" \o item.unit

\* a.localeCompare(b) on the priority labels: their alphabetical position
PriorityOrder(priority) ==
    CASE priority = "high" -> 1
      [] priority = "low" -> 2
      [] priority = "medium" -> 3

\* SuggestionFor giving high priority from three days overdue
SuggestionFor_overdue3(history, todayMidnight) ==
    LET dates == history.dates
        diffs == [i \in 1..(Len(dates) - 1) |-> RoundedDays(dates[i + 1], dates[i])]
        Sum[i \in 0..Len(diffs)] == IF i = 0 THEN 0 ELSE Sum[i - 1] + diffs[i]
        avgCycle == RoundDiv(Sum[Len(diffs)], Len(diffs))
        lastPurchaseDate == dates[Len(dates)]
        daysSinceLastPurchase == RoundedDays(todayMidnight, lastPurchaseDate)
        daysOverdue == daysSinceLastPurchase - avgCycle
        base == [name |-> history.name, unit |-> history.unit, category |-> history.category,
                 lastPurchaseDate |-> lastPurchaseDate, avgPurchaseCycleDays |-> avgCycle]
    IN  IF Len(dates) < 2 THEN <<>>
        ELSE IF avgCycle = 0 THEN <<>>
        ELSE IF daysSinceLastPurchase >= avgCycle
        THEN << Spread(base, [reason |-> <<"suggestionReasonDepleted", avgCycle, daysOverdue>>,
                              priority |-> IF daysOverdue >= 3 THEN "high" ELSE "medium"]) >>
        \* daysSinceLastPurchase >= avgCycle * 0.75
        ELSE IF 4 * daysSinceLastPurchase >= 3 * avgCycle
        THEN << Spread(base, [reason |-> <<"suggestionReasonGettingLow", avgCycle>>,
                              priority |-> "low"]) >>
        ELSE <<>>

\* SuggestionFor without the return on a cycle of 0 days
SuggestionFor_noZeroCheck(history, todayMidnight) ==
    LET dates == history.dates
        diffs == [i \in 1..(Len(dates) - 1) |-> RoundedDays(dates[i + 1], dates[i])]
        Sum[i \in 0..Len(diffs)] == IF i = 0 THEN 0 ELSE Sum[i - 1] + diffs[i]
        avgCycle == RoundDiv(Sum[Len(diffs)], Len(diffs))
        lastPurchaseDate == dates[Len(dates)]
        daysSinceLastPurchase == RoundedDays(todayMidnight, lastPurchaseDate)
        daysOverdue == daysSinceLastPurchase - avgCycle
        base == [name |-> history.name, unit |-> history.unit, category |-> history.category,
                 lastPurchaseDate |-> lastPurchaseDate, avgPurchaseCycleDays |-> avgCycle]
    IN  IF Len(dates) < 2 THEN <<>>
        ELSE IF daysSinceLastPurchase >= avgCycle
        THEN << Spread(base, [reason |-> <<"suggestionReasonDepleted", avgCycle, daysOverdue>>,
                              priority |-> IF daysOverdue > 3 THEN "high" ELSE "medium"]) >>
        \* daysSinceLastPurchase >= avgCycle * 0.75
        ELSE IF 4 * daysSinceLastPurchase >= 3 * avgCycle
        THEN << Spread(base, [reason |-> <<"suggestionReasonGettingLow", avgCycle>>,
                              priority |-> "low"]) >>
        ELSE <<>>

\* the suggestion pushed for one itemHistory entry, as a sequence of zero or one element
SuggestionFor(history, todayMidnight) ==
    LET dates == history.dates
        diffs == [i \in 1..(Len(dates) - 1) |-> RoundedDays(dates[i + 1], dates[i])]
        Sum[i \in 0..Len(diffs)] == IF i = 0 THEN 0 ELSE Sum[i - 1] + diffs[i]
        avgCycle == RoundDiv(Sum[Len(diffs)], Len(diffs))
        lastPurchaseDate == dates[Len(dates)]
        daysSinceLastPurchase == RoundedDays(todayMidnight, lastPurchaseDate)
        daysOverdue == daysSinceLastPurchase - avgCycle
        base == [name |-> history.name, unit |-> history.unit, category |-> history.category,
                 lastPurchaseDate |-> lastPurchaseDate, avgPurchaseCycleDays |-> avgCycle]
    IN  IF Len(dates) < 2 THEN <<>>
        ELSE IF avgCycle = 0 THEN <<>>
        ELSE IF daysSinceLastPurchase >= avgCycle
        THEN << Spread(base, [reason |-> <<"suggestionReasonDepleted", avgCycle, daysOverdue>>,
                              priority |-> IF daysOverdue > 3 THEN "high" ELSE "medium"]) >>
        \* daysSinceLastPurchase >= avgCycle * 0.75
        ELSE IF 4 * daysSinceLastPurchase >= 3 * avgCycle
        THEN << Spread(base, [reason |-> <<"suggestionReasonGettingLow", avgCycle>>,
                              priority |-> "low"]) >>
        ELSE <<>>

\* itemHistory.forEach(...): the suggestions pushed, in the Map's insertion order
RECURSIVE PushSuggestions(_, _)
PushSuggestions(histories, todayMidnight) ==
    IF histories = <<>> THEN <<>>
    ELSE SuggestionFor(Head(histories), todayMidnight)
         \o PushSuggestions(Tail(histories), todayMidnight)

\* itemHistory: one entry per key, in the order the keys first occur in allPurchases
ItemHistory(allPurchases) ==
    LET firsts == SelectSeq(Indexes(allPurchases),
                            LAMBDA i : \A j \in 1..(i - 1) :
                                HistoryKey(allPurchases[j]) # HistoryKey(allPurchases[i]))
        same(i) == SelectSeq(allPurchases,
                             LAMBDA item : HistoryKey(item) = HistoryKey(allPurchases[i]))
    IN  [n \in DOMAIN firsts |->
            [dates |-> [k \in DOMAIN same(firsts[n]) |-> same(firsts[n])[k].purchaseDate],
             name |-> allPurchases[firsts[n]].name,
             unit |-> allPurchases[firsts[n]].unit,
             category |-> allPurchases[firsts[n]].category]]

\* getSmartSuggestions without the final sort
getSmartSuggestions_unsorted(ls, todayMidnight) ==
    LET allPurchases ==
            SortAscBy(SelectSeq(FlatPurchases(ls),
                                LAMBDA item : /\ item.status = Bought
                                              /\ Truthy(Get(item, "purchasedAmount"))),
                      "purchaseDate")
        suggestions == PushSuggestions(ItemHistory(allPurchases), todayMidnight)
    IN  suggestions

getSmartSuggestions(ls, todayMidnight) ==
    LET allPurchases ==
            SortAscBy(SelectSeq(FlatPurchases(ls),
                                LAMBDA item : /\ item.status = Bought
                                              /\ Truthy(Get(item, "purchasedAmount"))),
                      "purchaseDate")
        suggestions == PushSuggestions(ItemHistory(allPurchases), todayMidnight)
        ranked == [i \in DOMAIN suggestions |->
                     Spread(suggestions[i], [order |-> PriorityOrder(suggestions[i].priority)])]
    IN  \* suggestions.sort((a, b) => b.priority.localeCompare(a.priority))
        [i \in DOMAIN ranked |-> Rest(SortDescBy(ranked, "order")[i], "order")]

\* items.reduce((sum, item) => sum + item[key], 0)
SumOf(items, key) ==
    LET Sum[i \in 0..Len(items)] == IF i = 0 THEN 0 ELSE Sum[i - 1] + items[i][key]
    IN  Sum[Len(items)]

\* the day startDate falls on: the switch over the period token
PeriodStartDay(period, day) ==
    CASE period = "7d" -> day - 6
      [] period = "30d" -> day - 29
      [] period = "mtd" -> day - (day % MonthDays)
      [] period = "ytd" -> day - (day % (YearMonths * MonthDays))
      [] period = "all" -> 0
      [] OTHER -> day

\* startDate.setHours(0, 0, 0, 0) and endDate.setHours(23, 59, 59, 999)
PeriodOf(period, day) ==
    [startDate |-> PeriodStartDay(period, day) * TicksPerDay,
     endDate |-> day * TicksPerDay + (TicksPerDay - 1)]

\* the value null a getter returns
NullResult == [null |-> TRUE]

\* a / b, kept exact as <<numerator, denominator>>
Quotient(a, b) == <<a, b>>

\* reduce((acc, x) => { acc[label] = (acc[label] || 0) + amount; return acc }, {}) and
\* Object.entries: the labels in order of first appearance, each with its total
SpendBy(labels, amounts) ==
    LET firsts == { i \in DOMAIN labels : \A j \in 1..(i - 1) : labels[j] # labels[i] }
        nth(k) == CHOOSE i \in firsts : Cardinality({ j \in firsts : j < i }) = k - 1
        total(label) ==
            LET Sum[i \in 0..Len(labels)] ==
                    IF i = 0 THEN 0
                    ELSE Sum[i - 1] + (IF labels[i] = label THEN amounts[i] ELSE 0)
            IN  Sum[Len(labels)]
    IN  [k \in 1..Cardinality(firsts) |->
            [name |-> labels[nth(k)], amount |-> total(labels[nth(k)])]]

\* the first entry of a breakdown sorted by amount, descending, or null
TopOf(spend) ==
    IF spend = <<>> THEN NullResult ELSE SortDescBy(spend, "amount")[1]

\* new Map(vendors.map(v => [v.id, v.name])).get(vendorId) || "Unknown"
VendorNameOf(vs, vendorId) ==
    LET hits == { i \in DOMAIN vs : vs[i].id = vendorId }
    IN  IF hits = {} THEN "Unknown"
        ELSE OrStr(vs[CHOOSE i \in hits : \A j \in hits : j <= i].name, "Unknown")

\* the time series without the days of the range set to 0 beforehand
spendingOverTime_unseeded(allPurchases, range) ==
    LET \* for (d = new Date(startDate); d <= endDate; d.setDate(d.getDate() + 1))
        seeded == <<>>
        keyOf(item) == toJalaliDateString(item.purchaseDate)
        late == SelectSeq(allPurchases,
                          LAMBDA item : \A k \in DOMAIN seeded : seeded[k] # keyOf(item))
        added == SpendBy([i \in DOMAIN late |-> keyOf(late[i])],
                         [i \in DOMAIN late |-> late[i].paidPrice])
        onDay(day) == SelectSeq(allPurchases, LAMBDA item : keyOf(item) = day)
    IN  [labels |-> seeded \o [k \in DOMAIN added |-> added[k].name],
         data |-> [k \in DOMAIN seeded |-> SumOf(onDay(seeded[k]), "paidPrice")]
                  \o [k \in DOMAIN added |-> added[k].amount]]

\* the time series: timeMap, its keys in insertion order
spendingOverTime(allPurchases, range) ==
    LET \* for (d = new Date(startDate); d <= endDate; d.setDate(d.getDate() + 1))
        seeded == [k \in 1..((range.endDate - range.startDate) \div TicksPerDay + 1) |->
                      toJalaliDateString(range.startDate + (k - 1) * TicksPerDay)]
        keyOf(item) == toJalaliDateString(item.purchaseDate)
        late == SelectSeq(allPurchases,
                          LAMBDA item : \A k \in DOMAIN seeded : seeded[k] # keyOf(item))
        added == SpendBy([i \in DOMAIN late |-> keyOf(late[i])],
                         [i \in DOMAIN late |-> late[i].paidPrice])
        onDay(day) == SelectSeq(allPurchases, LAMBDA item : keyOf(item) = day)
    IN  [labels |-> seeded \o [k \in DOMAIN added |-> added[k].name],
         data |-> [k \in DOMAIN seeded |-> SumOf(onDay(seeded[k]), "paidPrice")]
                  \o [k \in DOMAIN added |-> added[k].amount]]

\* getSummaryData from `const kpis` on: the result for the purchases of the range
SummaryOf(allPurchases, range, vs) ==
    LET totalSpend == SumOf(allPurchases, "paidPrice")
        elapsed == range.endDate - range.startDate
        categorySpend == SpendBy([i \in DOMAIN allPurchases |-> allPurchases[i].category],
                                 [i \in DOMAIN allPurchases |-> allPurchases[i].paidPrice])
        ofVendors == SelectSeq(allPurchases, LAMBDA item : Get(item, "vendorId") # Undefined)
        vendorSpend == SpendBy([i \in DOMAIN ofVendors |-> VendorNameOf(vs, ofVendors[i].vendorId)],
                               [i \in DOMAIN ofVendors |-> ofVendors[i].paidPrice])
        sortedCategories == SortDescBy(categorySpend, "amount")
    IN  [kpis |-> [totalSpend |-> totalSpend,
                   totalItems |-> Cardinality({ allPurchases[i].name :
                                                  i \in DOMAIN allPurchases }),
                   \* totalSpend / Math.max(1, (endDate - startDate) / day)
                   avgDailySpend |->
                       Quotient(totalSpend * TicksPerDay,
                                IF elapsed > TicksPerDay THEN elapsed ELSE TicksPerDay),
                   topCategory |-> TopOf(categorySpend),
                   topVendor |-> TopOf(vendorSpend)],
         charts |-> [spendingOverTime |-> spendingOverTime(allPurchases, range),
                     spendingByCategory |->
                         [labels |-> [k \in DOMAIN sortedCategories |-> sortedCategories[k].name],
                          data |-> [k \in DOMAIN sortedCategories |-> sortedCategories[k].amount]]],
         period |-> range]

\* getSummaryData taking the purchases of every list, whatever its date
getSummaryData_anyDate(L, period, day) ==
    LET range == PeriodOf(period, day)
        allPurchases == SelectSeq(FlatPurchases(L.lists),
                                  LAMBDA item : /\ item.status = Bought
                                                /\ Get(item, "paidPrice") # Undefined)
    IN  IF Len(allPurchases) = 0 THEN NullResult
        ELSE SummaryOf(allPurchases, range, L.vendors)

\* getSummaryData leaving out the purchases of price 0
getSummaryData_nonZero(L, period, day) ==
    LET range == PeriodOf(period, day)
        inRange == SelectSeq(L.lists, LAMBDA list : /\ list.createdAt >= range.startDate
                                                    /\ list.createdAt <= range.endDate)
        allPurchases == SelectSeq(FlatPurchases(inRange),
                                  LAMBDA item : /\ item.status = Bought
                                                /\ Truthy(Get(item, "paidPrice")))
    IN  IF Len(allPurchases) = 0 THEN NullResult
        ELSE SummaryOf(allPurchases, range, L.vendors)

getSummaryData(L, period, day) ==
    LET range == PeriodOf(period, day)
        inRange == SelectSeq(L.lists, LAMBDA list : /\ list.createdAt >= range.startDate
                                                    /\ list.createdAt <= range.endDate)
        allPurchases == SelectSeq(FlatPurchases(inRange),
                                  LAMBDA item : /\ item.status = Bought
                                                /\ Get(item, "paidPrice") # Undefined)
    IN  IF Len(allPurchases) = 0 THEN NullResult
        ELSE SummaryOf(allPurchases, range, L.vendors)

\* getExpenseForecast (the date of a purchase is carried in purchaseDate)
getExpenseForecast(ls) ==
    LET allPurchases == SelectSeq(FlatPurchases(ls),
                                  LAMBDA i : i.status = Bought /\ Truthy(Get(i, "paidPrice")))
        sorted == SortAscBy(allPurchases, "purchaseDate")
        firstDay == sorted[1].purchaseDate
        lastDay == sorted[Len(sorted)].purchaseDate
        totalDays == RoundedDays(lastDay, firstDay) + 1
        totalSpend == SumOf(sorted, "paidPrice")
    IN  IF Len(allPurchases) < 5 THEN NullResult
        ELSE IF totalDays < 30 THEN NullResult
        ELSE [daily |-> Quotient(totalSpend, totalDays),
              monthly |-> Quotient(totalSpend * 30, totalDays)]

\* a.localeCompare(b, 'fa') on item names: their alphabetical position
NameOrder(name) ==
    CASE name = "milk" -> 1
      [] name = "tea" -> 2
      [] OTHER -> 3

\* Array.prototype.sort (stable) with comparator (a, b) => a.name.localeCompare(b.name, 'fa')
SortByName(s) ==
    LET rank(i) == Cardinality({ j \in DOMAIN s :
                        \/ NameOrder(s[j].name) < NameOrder(s[i].name)
                        \/ (NameOrder(s[j].name) = NameOrder(s[i].name) /\ j < i) }) + 1
    IN  [r \in DOMAIN s |-> s[CHOOSE i \in DOMAIN s : rank(i) = r]]

\* getAllKnownItems with the map keyed by the name alone
getAllKnownItems_byName(ls) ==
    LET allPurchasedItems ==
            SelectSeq(FlatPurchases(ls),
                      LAMBDA item : /\ item.status = Bought
                                    /\ Get(item, "purchasedAmount") # Undefined
                                    /\ Get(item, "paidPrice") # Undefined)
        \* itemStats after the first i items: the keys in insertion order and their values
        itemStats[i \in 0..Len(allPurchasedItems)] ==
            IF i = 0 THEN [keys |-> <<>>, values |-> EmptyMap]
            ELSE LET item == allPurchasedItems[i]
                     key == item.name
                     seen == key \in DOMAIN itemStats[i - 1].values
                     currentStats ==
                         IF seen THEN itemStats[i - 1].values[key]
                         ELSE [name |-> item.name, unit |-> item.unit,
                               category |-> item.category,
                               lastPricePerUnit |-> Quotient(0, 1), totalQuantity |-> 0,
                               totalSpend |-> 0, purchaseCount |-> 0,
                               latestPurchaseDate |-> 0]
                     summed ==
                         [currentStats EXCEPT
                            !.totalQuantity = @ + OrNum(item.purchasedAmount, 0),
                            !.totalSpend = @ + OrNum(item.paidPrice, 0),
                            !.purchaseCount = @ + 1]
                     updated ==
                         IF item.purchaseDate >= currentStats.latestPurchaseDate
                         THEN [summed EXCEPT
                                 !.latestPurchaseDate = item.purchaseDate,
                                 !.lastPricePerUnit =
                                     Quotient(OrNum(item.paidPrice, 0),
                                              OrNum(item.purchasedAmount, 1)),
                                 !.category = item.category]
                         ELSE summed
                 IN  [keys |-> IF seen THEN itemStats[i - 1].keys
                               ELSE Append(itemStats[i - 1].keys, key),
                      values |-> Put(itemStats[i - 1].values, key, updated)]
        final == itemStats[Len(allPurchasedItems)]
        result == [k \in DOMAIN final.keys |->
                      Rest(final.values[final.keys[k]], "latestPurchaseDate")]
    IN  SortByName(result)

\* getAllKnownItems keeping the first of the purchases of the latest date
getAllKnownItems_firstWins(ls) ==
    LET allPurchasedItems ==
            SelectSeq(FlatPurchases(ls),
                      LAMBDA item : /\ item.status = Bought
                                    /\ Get(item, "purchasedAmount") # Undefined
                                    /\ Get(item, "paidPrice") # Undefined)
        \* itemStats after the first i items: the keys in insertion order and their values
        itemStats[i \in 0..Len(allPurchasedItems)] ==
            IF i = 0 THEN [keys |-> <<>>, values |-> EmptyMap]
            ELSE LET item == allPurchasedItems[i]
                     key == HistoryKey(item)
                     seen == key \in DOMAIN itemStats[i - 1].values
                     currentStats ==
                         IF seen THEN itemStats[i - 1].values[key]
                         ELSE [name |-> item.name, unit |-> item.unit,
                               category |-> item.category,
                               lastPricePerUnit |-> Quotient(0, 1), totalQuantity |-> 0,
                               totalSpend |-> 0, purchaseCount |-> 0,
                               latestPurchaseDate |-> 0]
                     summed ==
                         [currentStats EXCEPT
                            !.totalQuantity = @ + OrNum(item.purchasedAmount, 0),
                            !.totalSpend = @ + OrNum(item.paidPrice, 0),
                            !.purchaseCount = @ + 1]
                     updated ==
                         IF item.purchaseDate > currentStats.latestPurchaseDate
                         THEN [summed EXCEPT
                                 !.latestPurchaseDate = item.purchaseDate,
                                 !.lastPricePerUnit =
                                     Quotient(OrNum(item.paidPrice, 0),
                                              OrNum(item.purchasedAmount, 1)),
                                 !.category = item.category]
                         ELSE summed
                 IN  [keys |-> IF seen THEN itemStats[i - 1].keys
                               ELSE Append(itemStats[i - 1].keys, key),
                      values |-> Put(itemStats[i - 1].values, key, updated)]
        final == itemStats[Len(allPurchasedItems)]
        result == [k \in DOMAIN final.keys |->
                      Rest(final.values[final.keys[k]], "latestPurchaseDate")]
    IN  SortByName(result)

getAllKnownItems(ls) ==
    LET allPurchasedItems ==
            SelectSeq(FlatPurchases(ls),
                      LAMBDA item : /\ item.status = Bought
                                    /\ Get(item, "purchasedAmount") # Undefined
                                    /\ Get(item, "paidPrice") # Undefined)
        \* itemStats after the first i items: the keys in insertion order and their values
        itemStats[i \in 0..Len(allPurchasedItems)] ==
            IF i = 0 THEN [keys |-> <<>>, values |-> EmptyMap]
            ELSE LET item == allPurchasedItems[i]
                     key == HistoryKey(item)
                     seen == key \in DOMAIN itemStats[i - 1].values
                     currentStats ==
                         IF seen THEN itemStats[i - 1].values[key]
                         ELSE [name |-> item.name, unit |-> item.unit,
                               category |-> item.category,
                               lastPricePerUnit |-> Quotient(0, 1), totalQuantity |-> 0,
                               totalSpend |-> 0, purchaseCount |-> 0,
                               latestPurchaseDate |-> 0]
                     summed ==
                         [currentStats EXCEPT
                            !.totalQuantity = @ + OrNum(item.purchasedAmount, 0),
                            !.totalSpend = @ + OrNum(item.paidPrice, 0),
                            !.purchaseCount = @ + 1]
                     updated ==
                         IF item.purchaseDate >= currentStats.latestPurchaseDate
                         THEN [summed EXCEPT
                                 !.latestPurchaseDate = item.purchaseDate,
                                 !.lastPricePerUnit =
                                     Quotient(OrNum(item.paidPrice, 0),
                                              OrNum(item.purchasedAmount, 1)),
                                 !.category = item.category]
                         ELSE summed
                 IN  [keys |-> IF seen THEN itemStats[i - 1].keys
                               ELSE Append(itemStats[i - 1].keys, key),
                      values |-> Put(itemStats[i - 1].values, key, updated)]
        final == itemStats[Len(allPurchasedItems)]
        result == [k \in DOMAIN final.keys |->
                      Rest(final.values[final.keys[k]], "latestPurchaseDate")]
    IN  SortByName(result)

\* getKnownItemNames: the names of the items, then the keys of itemInfoMap, each once, sorted
getKnownItemNames(L) ==
    LET all == FlatPurchases(L.lists)
        KeysOf[S \in SUBSET DOMAIN L.itemInfoMap] ==
            IF S = {} THEN <<>>
            ELSE LET name == CHOOSE n \in S : TRUE IN <<name>> \o KeysOf[S \ {name}]
        added == [i \in DOMAIN all |-> all[i].name] \o KeysOf[DOMAIN L.itemInfoMap]
        itemNames == SelectSeq([i \in DOMAIN added |->
                                  [name |-> added[i],
                                   isNew |-> \A j \in 1..(i - 1) : added[j] # added[i]]],
                               LAMBDA entry : entry.isNew)
        sorted == SortByName(itemNames)
    IN  [i \in DOMAIN sorted |-> sorted[i].name]

\* the items of a list with listId and purchaseDate added
ItemsWithList(list) ==
    [k \in DOMAIN list.items |->
        Spread(list.items[k], [listId |-> list.id, purchaseDate |-> list.createdAt])]

RECURSIVE FlatItems(_)
FlatItems(ls) == IF ls = <<>> THEN <<>> ELSE ItemsWithList(Head(ls)) \o FlatItems(Tail(ls))

getPendingPayments(L) ==
    LET all == FlatPurchases([i \in DOMAIN L.lists |->
                   [L.lists[i] EXCEPT !.items =
                       [k \in DOMAIN L.lists[i].items |->
                           Spread(L.lists[i].items[k],
                                  [listId |-> L.lists[i].id, listName |-> L.lists[i].name])]]])
        pending == SelectSeq(all, LAMBDA item : /\ item.status = Bought
                                               /\ "paymentStatus" \in DOMAIN item
                                               /\ item.paymentStatus = "Due")
    IN  SortAscBy(pending, "purchaseDate")

\* getRecentPurchases: `lists` is get().lists after lists.sort(...), which sorts the
\* array of the store in place; `ret` is the array returned
getRecentPurchases(L, count) ==
    LET sorted == SortDescBy(L.lists, "createdAt")
        bought == SelectSeq(FlatItems(sorted), LAMBDA item : item.status = Bought)
    IN  [lists |-> sorted,
         ret |-> SubSeq(bought, 1, IF Len(bought) < count THEN Len(bought) ELSE count)]

----------------------------------------------------------------------------
(* Steps *)

\* a mutation made with a session and no hydration in flight, changing the Ledger
Qualifies(L) == currentUser # Null /\ ~isHydrating /\ L # Ledger

\* the pending timer will save a snapshot that holds every owed mutation
Covered == debounceTimer.pending /\ ShouldSave(debounceTimer.state) /\ debounceTimer.carries

\* history, after the Ledger was replaced wholesale
Replaced ==
    /\ lost' = (lost \/ (owed /\ ~Covered))
    /\ owed' = (owed /\ Covered)
    /\ carried' = ~owed'

\* no scheduling mutation since the timer last fired
NoBurst == [several |-> FALSE, some |-> FALSE, inSession |-> TRUE, ledger |-> emptyState]

\* the burst b after a further scheduling mutation that left the Ledger L; the Ledger is
\* kept while every mutation of the burst was made with a session and no hydration in flight
Extended(b, L) ==
    LET inSession == b.inSession /\ currentUser # Null /\ ~isHydrating
    IN  [several |-> b.some, some |-> TRUE, inSession |-> inSession,
         ledger |-> IF inSession THEN L ELSE emptyState]

\* the store after a synchronous operation `name(args)` that returned r; `made` are the
\* ids createList was called for, `removed` the ids deleteList was called for
Commit(r, name, args, made, removed) ==
    /\ lists' = r.L.lists
    /\ customCategories' = r.L.customCategories
    /\ vendors' = r.L.vendors
    /\ categoryVendorMap' = r.L.categoryVendorMap
    /\ itemInfoMap' = r.L.itemInfoMap
    /\ UNCHANGED <<currentUser, isHydrating, fetching, remote, now, today>>
    \* re-arming the timer drops the pending save of an owed mutation the Ledger lost
    /\ lost' = (lost \/ (r.sched /\ owed /\ ~carried))
    /\ owed' = IF r.sched /\ owed /\ ~carried
               THEN Qualifies(r.L)
               ELSE owed \/ (r.sched /\ Qualifies(r.L))
    /\ carried' = (carried \/ r.sched)
    /\ debounceTimer' = IF r.sched THEN debouncedSaveData(GetStateNext, owed')
                        ELSE debounceTimer
    /\ saved' = NoSave
    /\ created' = (created \cup made) \ removed
    /\ burst' = IF r.sched THEN Extended(burst, r.L) ELSE burst
    /\ quiet' = FALSE
    /\ op' = [name |-> name, args |-> args, ret |-> r.ret, sched |-> r.sched]

CreateList(date) ==
    \E r \in {createList(Ledger, date)} :
        Commit(r, "createList", [date |-> date], {toJalaliDateString(date)}, {})

UpdateList(listId, updatedList) ==
    \E r \in {updateList(Ledger, listId, updatedList)} :
        Commit(r, "updateList", [listId |-> listId, updatedList |-> updatedList], {}, {})

DeleteList(listId) ==
    \E r \in {deleteList(Ledger, listId)} :
        Commit(r, "deleteList", [listId |-> listId], {}, {listId})

UpdateItem(listId, itemId, updates) ==
    \E r \in {updateItem(Ledger, listId, itemId, updates)} :
        Commit(r, "updateItem", [listId |-> listId, itemId |-> itemId, updates |-> updates],
               {}, {})

AddItemFromSuggestion(suggestion) ==
    \E r \in {addItemFromSuggestion(Ledger, suggestion, now, TodayMidnight)} :
        Commit(r, "addItemFromSuggestion", [suggestion |-> suggestion],
               {toJalaliDateString(TodayMidnight)}, {})

AddOcrPurchase(ocrResult, paymentMethod, paymentStatus, vendorName) ==
    \E r \in {addOcrPurchase(Ledger, ocrResult, paymentMethod, paymentStatus, vendorName, now)} :
        Commit(r, "addOcrPurchase",
               [ocrResult |-> ocrResult, paymentMethod |-> paymentMethod,
                paymentStatus |-> paymentStatus, vendorName |-> vendorName],
               IF parseJalaliDate(ocrResult.date) = Undefined THEN {}
               ELSE {toJalaliDateString(parseJalaliDate(ocrResult.date))},
               {})

AddVendor(vendorData) ==
    \E r \in {addVendor(Ledger, vendorData, now)} :
        Commit(r, "addVendor", [vendorData |-> vendorData], {}, {})

UpdateVendor(vendorId, updates) ==
    \E r \in {updateVendor(Ledger, vendorId, updates)} :
        Commit(r, "updateVendor", [vendorId |-> vendorId, updates |-> updates], {}, {})

DeleteVendor(vendorId) ==
    \E r \in {deleteVendor(Ledger, vendorId)} :
        Commit(r, "deleteVendor",
               [vendorId |-> vendorId,
                referenced |-> \E i \in DOMAIN lists : \E k \in DOMAIN lists[i].items :
                                   Get(lists[i].items[k], "vendorId") = vendorId],
               {}, {})

FindOrCreateVendor(vendorName) ==
    \E r \in {findOrCreateVendor(Ledger, vendorName, now)} :
        Commit(r, "findOrCreateVendor", [vendorName |-> vendorName], {}, {})

UpdateCategoryVendorMap(category, vendorId) ==
    \E r \in {updateCategoryVendorMap(Ledger, category, vendorId)} :
        Commit(r, "updateCategoryVendorMap", [category |-> category, vendorId |-> vendorId],
               {}, {})

UpdateMasterItem(originalName, originalUnit, updates) ==
    \E r \in {updateMasterItem(Ledger, originalName, originalUnit, updates)} :
        Commit(r, "updateMasterItem",
               [originalName |-> originalName, originalUnit |-> originalUnit,
                updates |-> updates], {}, {})

\* saveData: the promise rejects when the POST fails (the error is logged and re-thrown)
saveData(saveOk) == [rejected |-> ~saveOk]

\* importData(jsonData); saveOk is whether the POST it awaits succeeds
ImportData(jsonData, saveOk) ==
    \E r \in {importData(Ledger, jsonData)} :
    LET same == JsonStringify(r.L) = JsonStringify(Ledger)
    IN  /\ lists' = r.L.lists
        /\ customCategories' = r.L.customCategories
        /\ vendors' = r.L.vendors
        /\ categoryVendorMap' = r.L.categoryVendorMap
        /\ itemInfoMap' = r.L.itemInfoMap
        /\ saved' = r.save
        /\ remote' = IF r.save.issued /\ saveOk
                     THEN [present |-> TRUE, content |-> JsonStringify(r.save.data)]
                     ELSE remote
        /\ IF r.threw \/ same
           THEN /\ owed' = (owed /\ ~(r.save.issued /\ carried))
                /\ UNCHANGED <<carried, lost>>
           ELSE Replaced
        \* the rejection of the awaited saveData reaches the catch block, which re-throws
        /\ op' = [name |-> "importData", args |-> [jsonData |-> jsonData],
                  threw |-> r.threw \/ (r.save.issued /\ saveData(saveOk).rejected),
                  saveFailed |-> r.save.issued /\ saveData(saveOk).rejected,
                  ofExport |-> jsonData = exportData(Ledger)]
        /\ quiet' = FALSE
        /\ UNCHANGED <<currentUser, isHydrating, debounceTimer, fetching, now, today, created,
                       burst>>

ExportData ==
    /\ op' = [name |-> "exportData", ret |-> exportData(Ledger)]
    /\ saved' = NoSave
    /\ UNCHANGED <<currentUser, isHydrating, lists, customCategories, vendors,
                   categoryVendorMap, itemInfoMap, debounceTimer, fetching, remote, now,
                   today, owed, carried, lost, created, burst, quiet>>

Login(username, password) ==
    LET accepted == ToLowerCase(username) = "mehrnoosh" /\ password = "cafe"
    IN  /\ currentUser' = IF accepted THEN User1 ELSE currentUser
        /\ op' = [name |-> "login", ret |-> accepted]
        /\ saved' = NoSave
        /\ quiet' = (quiet /\ ~accepted)
        /\ UNCHANGED <<isHydrating, lists, customCategories, vendors, categoryVendorMap,
                       itemInfoMap, debounceTimer, fetching, remote, now, today, owed, carried,
                       lost, created, burst>>

Logout ==
    /\ currentUser' = Null
    /\ lists' = emptyState.lists
    /\ customCategories' = emptyState.customCategories
    /\ vendors' = emptyState.vendors
    /\ categoryVendorMap' = emptyState.categoryVendorMap
    /\ itemInfoMap' = emptyState.itemInfoMap
    /\ isHydrating' = FALSE
    /\ Replaced
    /\ op' = [name |-> "logout"]
    /\ saved' = NoSave
    /\ quiet' = TRUE
    /\ UNCHANGED <<debounceTimer, fetching, remote, now, today, created, burst>>

\* hydrateFromCloud up to its await
HydrateFromCloud ==
    /\ fetching < MaxFetch
    /\ isHydrating' = TRUE
    /\ fetching' = fetching + 1
    /\ op' = [name |-> "hydrateFromCloud"]
    /\ saved' = NoSave
    /\ quiet' = FALSE
    /\ UNCHANGED <<currentUser, lists, customCategories, vendors, categoryVendorMap,
                   itemInfoMap, debounceTimer, remote, now, today, owed, carried, lost,
                   created, burst>>

\* what fetchData() may resolve to: null, or the parsed remote document
FetchResults ==
    {Absent} \cup (IF remote.present THEN {[present |-> TRUE, data |-> remote.content.data]}
                   ELSE {})

\* hydrateFromCloud after its await, fetchData() having resolved to `fetched`
FetchDataResolves(fetched) ==
    LET data == IF fetched.present THEN fetched.data ELSE emptyState
    IN  /\ fetching > 0
        /\ fetching' = fetching - 1
        /\ lists' = data.lists
        /\ customCategories' = data.customCategories
        /\ vendors' = data.vendors
        /\ categoryVendorMap' = data.categoryVendorMap
        /\ itemInfoMap' = data.itemInfoMap
        /\ isHydrating' = FALSE
        /\ Replaced
        /\ op' = [name |-> "fetchDataResolves"]
        /\ saved' = NoSave
        /\ UNCHANGED <<currentUser, debounceTimer, remote, now, today, created, burst, quiet>>

\* the setTimeout callback of debouncedSaveData; saveOk is whether the POST succeeds
DebounceTimerFires(saveOk) ==
    LET state == debounceTimer.state
        issue == ShouldSave(state)
    IN  /\ debounceTimer.pending
        /\ debounceTimer' = NoTimer
        /\ saved' = IF issue
                    THEN [issued |-> TRUE, by |-> "debouncedSaveData",
                          data |-> dataToSave(state)]
                    ELSE NoSave
        /\ remote' = IF issue /\ saveOk
                     THEN [present |-> TRUE, content |-> JsonStringify(dataToSave(state))]
                     ELSE remote
        /\ owed' = (owed /\ ~(issue /\ debounceTimer.carries))
        /\ carried' = (carried \/ (issue /\ debounceTimer.carries))
        /\ lost' = lost
        \* saveData(dataToSave).catch(console.error): the rejection ends in the log
        /\ op' = [name |-> "debounceTimer", persisted |-> issue /\ debounceTimer.carries,
                  saveFailed |-> issue /\ saveData(saveOk).rejected, threw |-> FALSE,
                  burst |-> burst]
        /\ burst' = NoBurst
        /\ UNCHANGED <<currentUser, isHydrating, lists, customCategories, vendors,
                       categoryVendorMap, itemInfoMap, fetching, now, today, created, quiet>>

\* time passes: Date.now() advances
Tick ==
    /\ now < MaxNow
    /\ now' = now + 1
    /\ UNCHANGED <<currentUser, isHydrating, lists, customCategories, vendors,
                   categoryVendorMap, itemInfoMap, debounceTimer, fetching, remote, today,
                   op, saved, owed, carried, lost, created, burst, quiet>>

\* a read-only call: only its result is recorded
Query(name, args, ret) ==
    /\ op' = [name |-> name, args |-> args, ret |-> ret]
    /\ saved' = NoSave
    /\ UNCHANGED <<currentUser, isHydrating, lists, customCategories, vendors,
                   categoryVendorMap, itemInfoMap, debounceTimer, fetching, remote, now,
                   today, owed, carried, lost, created, burst, quiet, nops>>

GetSmartSuggestions ==
    Query("getSmartSuggestions", <<>>, getSmartSuggestions(lists, TodayMidnight))

GetSummaryData(period) ==
    Query("getSummaryData", [period |-> period], getSummaryData(Ledger, period, today))

GetExpenseForecast == Query("getExpenseForecast", <<>>, getExpenseForecast(lists))

GetAllKnownItems == Query("getAllKnownItems", <<>>, getAllKnownItems(lists))

GetLatestPurchaseInfo(name, unit) ==
    Query("getLatestPurchaseInfo", [name |-> name, unit |-> unit],
          getLatestPurchaseInfo(Ledger, name, unit))

AllCategories == Query("allCategories", <<>>, allCategories(Ledger))

GetKnownItemNames == Query("getKnownItemNames", <<>>, getKnownItemNames(Ledger))

GetPendingPayments == Query("getPendingPayments", <<>>, getPendingPayments(Ledger))

\* getRecentPurchases(count): no set() and no debouncedSaveData, but the array get().lists
\* is sorted in place
GetRecentPurchases(count) ==
    \E r \in {getRecentPurchases(Ledger, count)} :
        /\ lists' = r.lists
        /\ op' = [name |-> "getRecentPurchases", args |-> [count |-> count], ret |-> r.ret]
        /\ saved' = NoSave
        /\ UNCHANGED <<currentUser, isHydrating, customCategories, vendors, categoryVendorMap,
                       itemInfoMap, debounceTimer, fetching, remote, now, today, owed, carried,
                       lost, created, burst, quiet, nops>>

----------------------------------------------------------------------------
(* Inputs *)

ListIds == 0..MaxDay

\* [listId, updatedList]: a rename in place, a list carrying another id, an id no list has
ListUpdates ==
    { <<1, [id |-> 1, name |-> <<"renamed", 1>>, createdAt |-> TicksPerDay, items |-> <<>>]>>,
      <<1, [id |-> MaxDay, name |-> <<"renamed", MaxDay>>, createdAt |-> MaxDay * TicksPerDay,
            items |-> <<>>]>>,
      <<0, [id |-> 0, name |-> <<"renamed", 0>>, createdAt |-> 0, items |-> <<>>]>> }

ItemIds == UNION { { lists[i].items[k].id : k \in DOMAIN lists[i].items } : i \in DOMAIN lists }

ItemUpdates ==
    { [status |-> Bought, paidPrice |-> 0, purchasedAmount |-> 2],
      [status |-> Pending],
      [receiptImage |-> "data:image/jpeg"] }

Suggestions ==
    { [name |-> "milk", unit |-> "kg", category |-> "dairy"],
      [name |-> "milk", unit |-> "liter", category |-> "dairy"],
      [name |-> "tea", unit |-> "piece", category |-> "drinks"] }

OcrMilk == [name |-> "milk", quantity |-> 2, price |-> 50, unit |-> "kg",
            suggestedCategory |-> "dairy"]
OcrMilkLiter == [name |-> "milk", quantity |-> 1, price |-> 30, unit |-> "liter",
                 suggestedCategory |-> "drinks"]
OcrTea == [name |-> "tea", quantity |-> 1, price |-> 0, unit |-> "", suggestedCategory |-> ""]

\* calls of addOcrPurchase
OcrCalls ==
    { [ocr |-> [date |-> InvalidDateText, items |-> <<OcrMilk>>], vendorName |-> "Ali",
       method |-> "cash", status |-> "Paid"],
      [ocr |-> [date |-> InvalidDateText, items |-> <<OcrMilk>>], vendorName |-> "",
       method |-> "cash", status |-> "Paid"],
      [ocr |-> [date |-> 1, items |-> <<OcrMilk>>], vendorName |-> "Ali",
       method |-> "cash", status |-> "Paid"],
      [ocr |-> [date |-> 1, items |-> <<OcrTea, OcrMilk>>], vendorName |-> "",
       method |-> "card", status |-> "Due"],
      [ocr |-> [date |-> MaxDay, items |-> <<OcrMilk>>], vendorName |-> "ali",
       method |-> "card", status |-> "Due"],
      [ocr |-> [date |-> MaxDay, items |-> <<OcrMilk, OcrMilkLiter>>], vendorName |-> "Bob",
       method |-> "cash", status |-> "Paid"] }

VendorNames == {"", " ", " Ali ", "ali", "Bob"}
VendorIds == 0..MaxNow

MasterUpdates ==
    { [name |-> "milk", unit |-> "liter", category |-> "dairy"],
      [name |-> "tea", unit |-> "kg", category |-> "drinks"] }

DupDoc ==
    [lists |-> << [id |-> 1, name |-> <<"imported", 1>>, createdAt |-> TicksPerDay,
                   items |-> << [id |-> <<0>>, name |-> "tea", amount |-> 1, unit |-> "kg",
                                 category |-> "drinks", status |-> Pending,
                                 receiptImage |-> "data:image/jpeg"] >>],
                  [id |-> 1, name |-> <<"imported", 1>>, createdAt |-> TicksPerDay,
                   items |-> <<>>] >>]

SeedDoc ==
    [lists |-> << [id |-> 1, name |-> <<"todaysShoppingList", 1>>, createdAt |-> TicksPerDay,
                   items |-> <<>>] >>,
     customCategories |-> <<"drinks">>, vendors |-> << [id |-> 0, name |-> "Ali"] >>,
     categoryVendorMap |-> EmptyMap, itemInfoMap |-> EmptyMap]

ImportTexts == {GarbageText, NoListsText, JsonStringify(DupDoc), JsonStringify(SeedDoc)}

Credentials == { [username |-> "Mehrnoosh", password |-> "cafe"],
                 [username |-> "mehrnoosh", password |-> "tea"] }

\* a Bought item as addOcrPurchase makes it
BoughtItem(name, category, paidPrice, purchasedAmount) ==
    [id |-> <<0, 0>>, name |-> name, amount |-> 1, unit |-> "kg", status |-> Bought,
     category |-> category, paidPrice |-> paidPrice, purchasedAmount |-> purchasedAmount,
     paymentStatus |-> "Paid", paymentMethod |-> "cash", vendorId |-> Undefined]

Milk == BoughtItem("milk", "dairy", 50, 2)
Tea == BoughtItem("tea", "drinks", 20, 1)
MilkNoQuantity == BoughtItem("milk", "dairy", 50, 0)
MilkPending == [id |-> <<0>>, name |-> "milk", amount |-> 1, unit |-> "kg",
                category |-> "dairy", status |-> Pending, estimatedPrice |-> Undefined]

\* the list of the instant `date` holding `items`
ListAt(date, items) ==
    [id |-> toJalaliDateString(date), name |-> todaysShoppingList(date), createdAt |-> date,
     items |-> items]

\* the sequences of at most QMaxLists lists drawn from `choices`
LedgersOf(choices) == UNION { [1..n -> choices] : n \in 0..QMaxLists }

\* Ledgers with purchases a day, some hours or CycleDays days apart
SuggestionLedgers ==
    LedgersOf({ ListAt(date, items) :
                  date \in {TicksPerDay, TicksPerDay + 1, 2 * TicksPerDay,
                            (1 + CycleDays) * TicksPerDay},
                  items \in {<<Milk>>, <<Milk, Milk, Tea>>, <<Tea>>, <<MilkNoQuantity>>,
                             <<MilkPending, Milk>>} })

MilkFree == BoughtItem("milk", "dairy", 0, 2)
MilkNoPrice == BoughtItem("milk", "dairy", Undefined, Undefined)
Milk30 == BoughtItem("milk", "other", 30, 1)

\* the day the summaries are asked on: the 11th day of the second month of a year
SummaryDay == (YearMonths + 1) * MonthDays + 10

\* the first and the last instant of a day
StartOfDay(day) == day * TicksPerDay
EndOfDay(day) == day * TicksPerDay + (TicksPerDay - 1)

\* Ledgers of lists dated on either side of the bounds of each period
SummaryLedgers ==
    LedgersOf({ ListAt(date, items) :
                  date \in { StartOfDay(SummaryDay + 1), EndOfDay(SummaryDay),
                             StartOfDay(SummaryDay - 6), EndOfDay(SummaryDay - 7),
                             StartOfDay(SummaryDay - 10), EndOfDay(SummaryDay - 11),
                             StartOfDay(SummaryDay - 29), EndOfDay(SummaryDay - 30),
                             StartOfDay(YearMonths * MonthDays),
                             EndOfDay(YearMonths * MonthDays - 1) },
                  items \in { <<Milk, Tea, Milk30>>, <<MilkFree>>,
                              <<MilkNoPrice, MilkPending>> } })

Periods == {"7d", "30d", "mtd", "ytd", "all", "today"}

\* Ledgers of four to six purchases, priced, free or unpriced, spanning 29 or 30 days
ForecastLedgers ==
    LedgersOf({ ListAt(date, items) :
                  date \in { StartOfDay(1), EndOfDay(1), StartOfDay(29), EndOfDay(29),
                             StartOfDay(30) },
                  items \in { <<Milk, Tea, Milk30>>, <<Milk, Tea>>, <<Milk, Tea, MilkFree>>,
                              <<MilkFree, MilkFree, MilkFree>>,
                              <<MilkNoPrice, MilkPending, Milk>> } })

MilkLitre == [Milk30 EXCEPT !.unit = "l", !.category = "dairy"]
MilkFromVendor == [Milk30 EXCEPT !.vendorId = 1]

\* Ledgers with purchases of one (name, unit) on the same and on different dates
PurchaseLedgers ==
    LedgersOf({ ListAt(date, items) :
                  date \in { StartOfDay(1), StartOfDay(2) },
                  items \in { <<Milk, Tea>>, <<MilkFromVendor, Milk>>, <<MilkLitre>>,
                              <<MilkNoQuantity>>, <<MilkFree>>,
                              <<MilkNoPrice, MilkPending>> } })

----------------------------------------------------------------------------
(* Specifications *)

\* the store as constructed (lines 93-98), before any session
InitStore ==
    /\ currentUser = Null
    /\ isHydrating = TRUE
    /\ lists = emptyState.lists
    /\ customCategories = emptyState.customCategories
    /\ vendors = emptyState.vendors
    /\ categoryVendorMap = emptyState.categoryVendorMap
    /\ itemInfoMap = emptyState.itemInfoMap
    /\ debounceTimer = NoTimer
    /\ fetching = 0
    /\ now = 0
    /\ op = [name |-> "create"]
    /\ saved = NoSave
    /\ owed = FALSE
    /\ carried = TRUE
    /\ lost = FALSE
    /\ created = {}
    /\ burst = NoBurst
    /\ quiet = FALSE
    /\ nops = 0

Init ==
    /\ InitStore
    /\ today = 1
    /\ remote \in {Absent, [present |-> TRUE, content |-> JsonStringify(SeedDoc)]}

\* a synchronous ledger operation, counted
Counted == nops < MaxOps /\ nops' = nops + 1
Free == nops' = nops

\* Session, hydration and autosave interleaved with list mutations and import
Next ==
    \/ \E c \in Credentials : Login(c.username, c.password) /\ Free
    \/ Logout /\ Free
    \/ HydrateFromCloud /\ Free
    \/ \E f \in FetchResults : FetchDataResolves(f) /\ Free
    \/ \E ok \in BOOLEAN : DebounceTimerFires(ok) /\ Free
    \/ CreateList(TodayMidnight) /\ Free
    \/ DeleteList(today) /\ Free
    \/ \E t \in {GarbageText, JsonStringify(SeedDoc)}, ok \in BOOLEAN :
          ImportData(t, ok) /\ Free

Spec == Init /\ [][Next]_vars

FairSpec ==
    /\ Spec
    /\ WF_vars(\E ok \in BOOLEAN : DebounceTimerFires(ok) /\ Free)
    /\ WF_vars(\E f \in FetchResults : FetchDataResolves(f) /\ Free)

InitLedger ==
    /\ InitStore
    /\ today = 1
    /\ remote = Absent

\* Every ledger operation, on small inputs, to a depth of MaxOps operations
LedgerNext ==
    \/ Tick /\ Free
    \/ \E date \in Dates : Counted /\ CreateList(date)
    \/ \E u \in ListUpdates : Counted /\ UpdateList(u[1], u[2])
    \/ \E id \in ListIds : Counted /\ DeleteList(id)
    \/ \E id \in {0, 1}, it \in ItemIds \cup {<<Undefined>>}, u \in ItemUpdates :
          Counted /\ UpdateItem(id, it, u)
    \/ \E s \in Suggestions : Counted /\ AddItemFromSuggestion(s)
    \/ \E c \in OcrCalls : Counted /\ AddOcrPurchase(c.ocr, c.method, c.status, c.vendorName)
    \/ \E n \in {"Ali", "Bob"} : Counted /\ AddVendor([name |-> n])
    \/ \E v \in VendorIds : Counted /\ UpdateVendor(v, [name |-> "ali"])
    \/ \E v \in VendorIds : Counted /\ DeleteVendor(v)
    \/ \E n \in VendorNames : Counted /\ FindOrCreateVendor(n)
    \/ \E v \in VendorIds : Counted /\ UpdateCategoryVendorMap("dairy", v)
    \/ \E u \in MasterUpdates : Counted /\ UpdateMasterItem("milk", "kg", u)
    \/ \E t \in ImportTexts \cup {exportData(Ledger)} : Counted /\ ImportData(t, TRUE)
    \/ Counted /\ ImportData(JsonStringify(SeedDoc), FALSE)
    \/ Counted /\ ExportData

LedgerSpec == InitLedger /\ [][LedgerNext]_vars

\* the store holding the lists `ls` on the day `day`, nothing pending
InitQuery(ls, day) ==
    /\ currentUser = Null
    /\ isHydrating = TRUE
    /\ lists = ls
    /\ customCategories = emptyState.customCategories
    /\ vendors = emptyState.vendors
    /\ categoryVendorMap = emptyState.categoryVendorMap
    /\ itemInfoMap = emptyState.itemInfoMap
    /\ debounceTimer = NoTimer
    /\ fetching = 0
    /\ now = 0
    /\ op = [name |-> "create"]
    /\ saved = NoSave
    /\ owed = FALSE
    /\ carried = TRUE
    /\ lost = FALSE
    /\ created = {}
    /\ burst = NoBurst
    /\ quiet = FALSE
    /\ nops = 0
    /\ today = day
    /\ remote = Absent

InitSuggestions ==
    \E ls \in SuggestionLedgers, day \in (1 + CycleDays)..(1 + CycleDays + MaxElapsed) :
        InitQuery(ls, day)

\* The suggestion engine applied to Ledgers of a few purchases
SuggestionsNext == GetSmartSuggestions

SuggestionsSpec == InitSuggestions /\ [][SuggestionsNext]_vars

InitSummary == \E ls \in SummaryLedgers : InitQuery(ls, SummaryDay)

\* The summary engine applied once, for every period, to Ledgers around the periods' bounds
SummaryNext == op.name = "create" /\ \E period \in Periods : GetSummaryData(period)

SummarySpec == InitSummary /\ [][SummaryNext]_vars

InitForecast == \E ls \in ForecastLedgers : InitQuery(ls, 30)

ForecastNext == GetExpenseForecast

ForecastSpec == InitForecast /\ [][ForecastNext]_vars

InitPurchases == \E ls \in PurchaseLedgers : InitQuery(ls, 2)

\* The queries over the purchase history
PurchasesNext ==
    \/ GetAllKnownItems
    \/ \E name \in {"milk", "tea"}, unit \in {"kg", "l"} : GetLatestPurchaseInfo(name, unit)

PurchasesSpec == InitPurchases /\ [][PurchasesNext]_vars

\* Every query, on the Ledgers of PurchaseLedgers
QueriesNext ==
    \/ AllCategories
    \/ GetKnownItemNames
    \/ GetAllKnownItems
    \/ \E name \in {"milk", "tea"} : GetLatestPurchaseInfo(name, "kg")
    \/ GetSmartSuggestions
    \/ GetPendingPayments
    \/ \E count \in {1, 3} : GetRecentPurchases(count)
    \/ GetExpenseForecast
    \/ \E period \in {"7d", "all"} : GetSummaryData(period)
    \/ ExportData /\ Free

QueriesSpec == InitPurchases /\ [][QueriesNext]_vars

\* Vendors added, renamed and resolved by name, directly and by addOcrPurchase
VendorNamesNext ==
    \/ Tick /\ Free
    \/ \E n \in {"Ali", " Ali ", "Bob"} : Counted /\ AddVendor([name |-> n])
    \/ \E v \in VendorIds : Counted /\ UpdateVendor(v, [name |-> "ali"])
    \/ \E n \in VendorNames : Counted /\ FindOrCreateVendor(n)
    \/ \E c \in OcrCalls : Counted /\ AddOcrPurchase(c.ocr, c.method, c.status, c.vendorName)

VendorNamesSpec == InitLedger /\ [][VendorNamesNext]_vars

\* Items added from suggestions and from receipts, the clock advancing or not between calls
ItemIdsNext ==
    \/ Tick /\ Free
    \/ \E s \in Suggestions : Counted /\ AddItemFromSuggestion(s)
    \/ \E c \in OcrCalls : Counted /\ AddOcrPurchase(c.ocr, c.method, c.status, c.vendorName)

ItemIdsSpec == InitLedger /\ [][ItemIdsNext]_vars

\* Vendors added, resolved, preferred for a category (by the id of an existing vendor) and
\* deleted, from the empty Ledger
VendorMapNext ==
    \/ Tick /\ Free
    \/ \E n \in {"Ali", "Bob"} : Counted /\ AddVendor([name |-> n])
    \/ \E n \in VendorNames : Counted /\ FindOrCreateVendor(n)
    \/ \E c \in OcrCalls : Counted /\ AddOcrPurchase(c.ocr, c.method, c.status, c.vendorName)
    \/ \E category \in {"dairy", "other"} : \E i \in DOMAIN vendors :
          Counted /\ UpdateCategoryVendorMap(category, vendors[i].id)
    \/ \E i \in DOMAIN vendors : Counted /\ DeleteVendor(vendors[i].id)

VendorMapSpec == InitLedger /\ [][VendorMapNext]_vars

----------------------------------------------------------------------------
(* Claims *)

AutosaveIssued == saved.issued /\ saved.by = "debouncedSaveData"

\* C1: whenever the debounced autosave issues a save, at that instant a session is
\* active (currentUser is not null) and isHydrating is false in the store.
C1_AutosaveOnlyWithSessionAndNoHydration ==
    AutosaveIssued => (currentUser # Null /\ ~isHydrating)

\* C2: no two lists of the Ledger share an id, whatever operations were performed.
C2_ListIdsUnique ==
    \A i, j \in DOMAIN lists : i # j => lists[i].id # lists[j].id

\* the step is a call of the operation `name`
Called(name) == op'.name = name /\ nops' = nops + 1

\* C5: addOcrPurchase with a batch whose date does not parse returns the invalid-date
\* sentinel and leaves lists, vendors, customCategories, categoryVendorMap and
\* itemInfoMap as they were, for every vendorName.
C5_InvalidDateCommitsNothing ==
    [][(Called("addOcrPurchase") /\ op'.args.ocrResult.date = InvalidDateText)
        => (op'.ret = InvalidDate /\ Ledger' = Ledger)]_vars

\* C3 as stated: a second createList for a date whose id an earlier createList returned,
\* with no deleteList of that id in between, returns that id and leaves lists as it was.
C3_SecondCreateListIsNoOp ==
    [][(Called("createList") /\ toJalaliDateString(op'.args.date) \in created)
        => (op'.ret = toJalaliDateString(op'.args.date) /\ lists' = lists)]_vars

\* C3: createList(d) returns the id of d's calendar day and leaves a list with that id;
\* when a list with that id exists at the call, whatever d's time of day, the call
\* changes nothing in the Ledger (same lists, names, createdAt, items) and schedules
\* no save.
C3_CreateListOnExistingIsNoOp ==
    [][Called("createList")
        => LET listId == toJalaliDateString(op'.args.date)
           IN  /\ op'.ret = listId
               /\ HasList(lists', listId)
               /\ HasList(lists, listId) => (Ledger' = Ledger /\ ~op'.sched)]_vars

\* createList at another time of a day whose list was made at midnight found that list
C3_Witness_SecondCallSameDay ==
    /\ op.name = "createList"
    /\ ~op.sched
    /\ op.args.date = TicksPerDay + 1
    /\ op.ret = 1
    /\ \E i \in DOMAIN lists : lists[i].id = 1 /\ lists[i].createdAt = TicksPerDay

TimerSnapshotSaves ==
    /\ debounceTimer.pending
    /\ debounceTimer.state.currentUser # Null
    /\ ~debounceTimer.state.isHydrating

\* the pending timer was re-armed by a mutation made logged out or during hydration
TimerRearmedSuppressed ==
    /\ debounceTimer.pending
    /\ (debounceTimer.state.currentUser = Null \/ debounceTimer.state.isHydrating)

\* the timer callback has just issued a save holding every owed mutation
Persisted == AutosaveIssued /\ op.name = "debounceTimer" /\ op.persisted

TodaysItems(ls) ==
    IF HasList(ls, toJalaliDateString(TodayMidnight))
    THEN FindList(ls, toJalaliDateString(TodayMidnight)).items
    ELSE <<>>

HasPending(items, name, unit) ==
    \E k \in DOMAIN items :
        items[k].name = name /\ items[k].unit = unit /\ items[k].status = Pending

NoTwoPending(items) ==
    \A i, j \in DOMAIN items :
        (i # j /\ items[i].status = Pending /\ items[j].status = Pending)
            => (items[i].name # items[j].name \/ items[i].unit # items[j].unit)

\* C6: addItemFromSuggestion returns false and leaves the Ledger unchanged when today's
\* list holds a Pending item of the same name and unit; otherwise it returns true and
\* today's list gains exactly one item, Pending, with that name and unit, after the
\* items it had.  So a call never makes two Pending items of one (name, unit) in today's
\* list where there were none.
C6_SuggestionDuplicateSuppressed ==
    [][Called("addItemFromSuggestion")
        => LET s == op'.args.suggestion
               before == TodaysItems(lists)
               after == TodaysItems(lists')
           IN  /\ IF HasPending(before, s.name, s.unit)
                  THEN op'.ret = FALSE /\ Ledger' = Ledger
                  ELSE /\ op'.ret = TRUE
                       /\ Len(after) = Len(before) + 1
                       /\ SubSeq(after, 1, Len(before)) = before
                       /\ after[Len(after)].name = s.name
                       /\ after[Len(after)].unit = s.unit
                       /\ after[Len(after)].status = Pending
               /\ NoTwoPending(before) => NoTwoPending(after)]_vars

\* a suggestion was refused because today's list holds it Pending, next to a Bought item
\* of the same name
C6_Witness_Refused ==
    /\ op.name = "addItemFromSuggestion"
    /\ op.ret = FALSE
    /\ HasPending(TodaysItems(lists), op.args.suggestion.name, op.args.suggestion.unit)
    /\ Len(TodaysItems(lists)) > 1

\* C7: deleteVendor(v) removes v from vendors, sets vendorId to undefined on every item
\* whose vendorId was v, and removes no item: every list keeps its items in order, every
\* other field of every item and every item of another vendor (or none) is unchanged.
C7_DeleteVendorKeepsItems ==
    [][Called("deleteVendor")
        => LET v == op'.args.vendorId
           IN  /\ \A i \in DOMAIN vendors' : vendors'[i].id # v
               /\ vendors' = SelectSeq(vendors, LAMBDA x : x.id # v)
               /\ DOMAIN lists' = DOMAIN lists
               /\ \A i \in DOMAIN lists :
                    /\ Rest(lists'[i], "items") = Rest(lists[i], "items")
                    /\ DOMAIN lists'[i].items = DOMAIN lists[i].items
                    /\ \A k \in DOMAIN lists[i].items :
                         LET old == lists[i].items[k]
                             new == lists'[i].items[k]
                         IN  IF Get(old, "vendorId") = v
                             THEN /\ Get(new, "vendorId") = Undefined
                                  /\ Rest(new, "vendorId") = Rest(old, "vendorId")
                             ELSE new = old
               /\ customCategories' = customCategories
               /\ categoryVendorMap' = categoryVendorMap
               /\ itemInfoMap' = itemInfoMap]_vars

\* a vendor that an item referenced was deleted and the item is still there
C7_Witness_ReferencedVendorDeleted ==
    /\ op.name = "deleteVendor"
    /\ op.args.referenced
    /\ \E i \in DOMAIN lists : \E k \in DOMAIN lists[i].items :
          /\ "vendorId" \in DOMAIN lists[i].items[k]
          /\ lists[i].items[k].vendorId = Undefined
          /\ lists[i].items[k].status = Bought

HasItem(ls, listId, itemId) ==
    \E i \in DOMAIN ls : /\ ls[i].id = listId
                         /\ \E k \in DOMAIN ls[i].items : ls[i].items[k].id = itemId

\* C8: updateList and deleteList with an id of no list, and updateItem with a listId of
\* no list or an itemId of no item of that list, leave every Ledger field as it was
\* (and return normally).
C8_AbsentIdIsNoOp ==
    [][( \/ (Called("updateList") /\ ~HasList(lists, op'.args.listId))
         \/ (Called("deleteList") /\ ~HasList(lists, op'.args.listId))
         \/ (Called("updateItem") /\ ~HasItem(lists, op'.args.listId, op'.args.itemId)) )
        => (Ledger' = Ledger /\ op'.ret = Undefined)]_vars

\* updateItem named a list that exists and holds items, with an item id none of them has
C8_Witness_AbsentItem ==
    /\ op.name = "updateItem"
    /\ HasList(lists, op.args.listId)
    /\ FindList(lists, op.args.listId).items # <<>>
    /\ ~HasItem(lists, op.args.listId, op.args.itemId)

\* the step imports, with the save succeeding, what exportData returns in the state before
RoundTrip ==
    /\ Called("importData")
    /\ op'.args.jsonData = exportData(Ledger)
    /\ ~op'.threw

\* C9 as stated: importData(exportData()) leaves the Ledger equal to what it was, except
\* that receiptImage is removed from every item.
C9_RoundTripExceptReceiptImage ==
    [][RoundTrip
        => Ledger' = [Ledger EXCEPT
                        !.lists = [i \in DOMAIN lists |->
                                     [lists[i] EXCEPT !.items =
                                        [k \in DOMAIN lists[i].items |->
                                            Rest(lists[i].items[k], "receiptImage")]]]]]_vars

\* C9: importData(exportData()) leaves the Ledger equal to what it was, except that on
\* every item receiptImage is removed and so is every field that held undefined
\* (estimatedPrice of a suggestion without price history, vendorId cleared by
\* deleteVendor or absent at an OCR import).
C9_RoundTripExceptReceiptImageAndUndefined ==
    [][RoundTrip
        => /\ customCategories' = customCategories
           /\ vendors' = vendors
           /\ categoryVendorMap' = categoryVendorMap
           /\ itemInfoMap' = itemInfoMap
           /\ DOMAIN lists' = DOMAIN lists
           /\ \A i \in DOMAIN lists :
                /\ Rest(lists'[i], "items") = Rest(lists[i], "items")
                /\ DOMAIN lists'[i].items = DOMAIN lists[i].items
                /\ \A k \in DOMAIN lists[i].items :
                     LET old == lists[i].items[k]
                         new == lists'[i].items[k]
                     IN  /\ DOMAIN new = { f \in DOMAIN old :
                                             f # "receiptImage" /\ ~IsUndefinedAt(old, f) }
                         /\ \A f \in DOMAIN new : new[f] = old[f]]_vars

\* a Ledger holding an item with a receiptImage went through export and import
C9_Witness_ImageStripped ==
    /\ op.name = "importData"
    /\ ~op.threw
    /\ op.ofExport
    /\ \E i \in DOMAIN op.args.jsonData.data.lists :
         \E k \in DOMAIN op.args.jsonData.data.lists[i].items :
            "receiptImage" \in DOMAIN op.args.jsonData.data.lists[i].items[k]
    /\ \A i \in DOMAIN lists : \A k \in DOMAIN lists[i].items :
          "receiptImage" \notin DOMAIN lists[i].items[k]

\* C10: importData of a text that is not JSON, or whose lists is no array, throws,
\* leaves the Ledger as it was and issues no save (the remote is not written).
C10_BadImportRejected ==
    [][(Called("importData")
          /\ (~op'.args.jsonData.parses \/ ~op'.args.jsonData.listsIsArray))
        => (op'.threw /\ Ledger' = Ledger /\ ~saved'.issued /\ remote' = remote)]_vars

\* a document whose lists is no array was refused by a store that holds lists
C10_Witness_NoListsRefused ==
    /\ op.name = "importData"
    /\ op.threw
    /\ op.args.jsonData = NoListsText
    /\ lists # <<>>

\* C11: a failure of a save to the remote store reaches the caller that triggered it,
\* for the save importData issues and for the save the debounce timer issues.
C11_SaveFailurePropagated ==
    (saved.issued /\ op.saveFailed) => op.threw

\* the purchases getSmartSuggestions counts for (name, unit), oldest first
QualifyingDates(ls, name, unit) ==
    LET all == SortAscBy(FlatPurchases(ls), "purchaseDate")
        mine == SelectSeq(all, LAMBDA item : /\ item.name = name /\ item.unit = unit
                                             /\ item.status = Bought
                                             /\ Get(item, "purchasedAmount") # Undefined
                                             /\ Get(item, "purchasedAmount") # 0)
    IN  [k \in DOMAIN mine |-> mine[k].purchaseDate]

\* the rounded average of the whole-day gaps between consecutive dates (two dates at least)
InferredCycle(dates) ==
    LET gap(i) == RoundDiv(Abs(dates[i + 1] - dates[i]), TicksPerDay)
        Total[i \in 0..(Len(dates) - 1)] == IF i = 0 THEN 0 ELSE Total[i - 1] + gap(i)
    IN  RoundDiv(Total[Len(dates) - 1], Len(dates) - 1)

\* whole days between the most recent of the dates and today
Elapsed(dates) == RoundDiv(Abs(TodayMidnight - dates[Len(dates)]), TicksPerDay)

\* the (name, unit) pairs of the items of the lists
Pairs(ls) ==
    UNION { { <<ls[i].items[k].name, ls[i].items[k].unit>> : k \in DOMAIN ls[i].items } :
            i \in DOMAIN ls }

\* the suggestions of a result for (name, unit), as <<kind of reason, priority>>
Emitted(ret, name, unit) ==
    { <<ret[i].reason[1], ret[i].priority>> :
        i \in { j \in DOMAIN ret : ret[j].name = name /\ ret[j].unit = unit } }

\* C12: for every (name, unit) with at least two qualifying purchases and an inferred
\* cycle c > 0, with e the whole days from the most recent purchase to today:
\* depleted/high when e >= c and e - c > 3, depleted/medium when e >= c and e - c <= 3,
\* getting-low/low when 0.75 c <= e < c, and no suggestion when e < 0.75 c.
C12_SuggestionThresholds ==
    op.name = "getSmartSuggestions" =>
        \A p \in Pairs(lists) :
            LET dates == QualifyingDates(lists, p[1], p[2])
                c == InferredCycle(dates)
                e == Elapsed(dates)
                emitted == Emitted(op.ret, p[1], p[2])
            IN  (Len(dates) >= 2 /\ c > 0) =>
                    /\ (e >= c /\ e - c > 3) => emitted = {<<"suggestionReasonDepleted", "high">>}
                    /\ (e >= c /\ e - c <= 3) => emitted = {<<"suggestionReasonDepleted", "medium">>}
                    /\ (4 * e >= 3 * c /\ e < c) => emitted = {<<"suggestionReasonGettingLow", "low">>}
                    /\ (4 * e < 3 * c) => emitted = {}

\* every case of the rule occurs in one result or another: here high and medium together
C12_Witness_HighAndMedium ==
    /\ op.name = "getSmartSuggestions"
    /\ \E i, j \in DOMAIN op.ret : op.ret[i].priority = "high" /\ op.ret[j].priority = "medium"
    /\ \E p \in Pairs(lists) : Len(QualifyingDates(lists, p[1], p[2])) > 2

\* C13: getSmartSuggestions emits at most one suggestion per (name, unit), and none for a
\* pair with fewer than two Bought purchases with a quantity or with a rounded average
\* gap of 0 days, however long ago the last purchase was.
C13_AtMostOneAndNoneWithoutCycle ==
    op.name = "getSmartSuggestions" =>
        /\ \A i, j \in DOMAIN op.ret :
              (op.ret[i].name = op.ret[j].name /\ op.ret[i].unit = op.ret[j].unit) => i = j
        /\ \A i \in DOMAIN op.ret :
              LET dates == QualifyingDates(lists, op.ret[i].name, op.ret[i].unit)
              IN  Len(dates) >= 2 /\ InferredCycle(dates) > 0

\* a pair bought twice within a day, long ago, got no suggestion while another pair got one
C13_Witness_ZeroCycleSilent ==
    /\ op.name = "getSmartSuggestions"
    /\ op.ret # <<>>
    /\ \E p \in Pairs(lists) :
          LET dates == QualifyingDates(lists, p[1], p[2])
          IN  /\ Len(dates) >= 2
              /\ InferredCycle(dates) = 0
              /\ Elapsed(dates) > 3
              /\ Emitted(op.ret, p[1], p[2]) = {}

\* C14 as stated: in the result every low-priority suggestion comes before every
\* medium-priority one, and every medium-priority one before every high-priority one.
C14_LowThenMediumThenHigh ==
    op.name = "getSmartSuggestions" =>
        \A i, j \in DOMAIN op.ret :
            i < j => <<op.ret[i].priority, op.ret[j].priority>> \notin
                        { <<"medium", "low">>, <<"high", "low">>, <<"high", "medium">> }

\* C14: the result is ordered by priority label in descending string order: every
\* medium-priority suggestion comes before every low-priority one, and every
\* low-priority one before every high-priority one.
C14_MediumThenLowThenHigh ==
    op.name = "getSmartSuggestions" =>
        \A i, j \in DOMAIN op.ret :
            i < j => <<op.ret[i].priority, op.ret[j].priority>> \notin
                        { <<"low", "medium">>, <<"high", "medium">>, <<"high", "low">> }

\* a result holding a medium-priority suggestion, then a low-priority one
C14_Witness_MediumBeforeLow ==
    /\ op.name = "getSmartSuggestions"
    /\ Len(op.ret) = 2
    /\ op.ret[1].priority = "medium"
    /\ op.ret[2].priority = "low"

\* the items of a Ledger, as <<index of the list, index of the item>>
Positions(ls) ==
    UNION { { <<i, k>> : k \in DOMAIN ls[i].items } : i \in DOMAIN ls }

\* Bought items with a paidPrice, zero included, in the lists dated within [lo, hi]
Priced(ls, lo, hi) ==
    { p \in Positions(ls) : /\ ls[p[1]].createdAt >= lo
                        /\ ls[p[1]].createdAt <= hi
                        /\ ls[p[1]].items[p[2]].status = Bought
                        /\ ~IsUndefinedAt(ls[p[1]].items[p[2]], "paidPrice") }

\* The sum of paidPrice over a set of items of a Ledger
RECURSIVE PaidTotal(_, _)
PaidTotal(ls, ps) ==
    IF ps = {} THEN 0
    ELSE LET p == CHOOSE q \in ps : TRUE
         IN  ls[p[1]].items[p[2]].paidPrice + PaidTotal(ls, ps \ {p})

IsSummary(ret) == "kpis" \in DOMAIN ret

\* C15: whenever getSummaryData returns a result, for any period token, totalSpend is
\* the sum of paidPrice over exactly the Bought items with a paidPrice (zero included)
\* whose list is dated within the inclusive range of the period, and totalItems is
\* the number of distinct names among them; lists outside the range add nothing.
C15_TotalsOverPurchasesInRange ==
    (op.name = "getSummaryData" /\ IsSummary(op.ret)) =>
        LET ps == Priced(lists, op.ret.period.startDate, op.ret.period.endDate)
        IN  /\ op.ret.kpis.totalSpend = PaidTotal(lists, ps)
            /\ op.ret.kpis.totalItems =
                   Cardinality({ lists[p[1]].items[p[2]].name : p \in ps })

\* a week's summary of 100 over two names, with priced purchases left outside the week
C15_Witness_WeekExcludesOlderList ==
    /\ op.name = "getSummaryData"
    /\ op.args.period = "7d"
    /\ IsSummary(op.ret)
    /\ op.ret.kpis.totalSpend = 100
    /\ op.ret.kpis.totalItems = 2
    /\ Priced(lists, 0, EndOfDay(SummaryDay + 1)) #
           Priced(lists, op.ret.period.startDate, op.ret.period.endDate)

\* the Bought items with a paidPrice in the range a period token asks for today
PricedInPeriod(period) ==
    Priced(lists, PeriodOf(period, today).startDate, PeriodOf(period, today).endDate)

\* C16: getSummaryData returns null exactly when no Bought item with a paidPrice has a
\* list date in the requested range; when there are such items and every one has
\* paidPrice 0 the result is not null and its totalSpend is 0.
C16_NullOnlyWithoutPurchases ==
    op.name = "getSummaryData" =>
        LET ps == PricedInPeriod(op.args.period)
        IN  /\ (op.ret = NullResult) <=> (ps = {})
            /\ (ps # {} /\ \A p \in ps : lists[p[1]].items[p[2]].paidPrice = 0) =>
                   (IsSummary(op.ret) /\ op.ret.kpis.totalSpend = 0)

\* a summary whose purchases in range all cost 0: a result, with totalSpend 0
C16_Witness_ZeroSpendIsNotNull ==
    /\ op.name = "getSummaryData"
    /\ PricedInPeriod(op.args.period) # {}
    /\ \A p \in PricedInPeriod(op.args.period) : lists[p[1]].items[p[2]].paidPrice = 0
    /\ IsSummary(op.ret)
    /\ op.ret.kpis.totalSpend = 0

\* Bought items with a paidPrice, zero included, anywhere in a Ledger
AllPriced(ls) == { p \in Positions(ls) : /\ ls[p[1]].items[p[2]].status = Bought
                                         /\ ~IsUndefinedAt(ls[p[1]].items[p[2]], "paidPrice") }

\* Bought items with a paidPrice other than zero
AllNonZero(ls) == { p \in AllPriced(ls) : ls[p[1]].items[p[2]].paidPrice # 0 }

\* the days from the earliest to the latest list date of a set of purchases, inclusive
DaySpan(ls, ps) ==
    LET dates == { ls[p[1]].createdAt : p \in ps }
        earliest == CHOOSE d \in dates : \A e \in dates : d <= e
        latest == CHOOSE d \in dates : \A e \in dates : d >= e
    IN  RoundedDays(latest, earliest) + 1

\* a result r of getExpenseForecast is the forecast over the purchases ps
ForecastOver(r, ls, ps) ==
    IF Cardinality(ps) < 5 \/ DaySpan(ls, ps) < 30 THEN r = NullResult
    ELSE /\ r # NullResult
         /\ r.daily[1] * DaySpan(ls, ps) = PaidTotal(ls, ps) * r.daily[2]
         /\ r.monthly[1] * r.daily[2] = 30 * r.daily[1] * r.monthly[2]

\* C17: getExpenseForecast returns null exactly when the Ledger holds fewer than 5 Bought
\* purchases with a price or the inclusive day span from the earliest to the latest of
\* them is under 30, whatever the amounts spent; otherwise daily is the total spend
\* divided by the span and monthly is 30 times daily.
C17_ForecastOverPricedPurchases ==
    op.name = "getExpenseForecast" => ForecastOver(op.ret, lists, AllPriced(lists))

\* the same over the purchases whose paidPrice is not zero
ForecastOverNonZeroPurchases ==
    op.name = "getExpenseForecast" => ForecastOver(op.ret, lists, AllNonZero(lists))

\* Bought items with both purchasedAmount and paidPrice present
Known(ls) == { p \in AllPriced(ls) : ~IsUndefinedAt(ls[p[1]].items[p[2]], "purchasedAmount") }

\* those of one (name, unit)
KnownOf(ls, name, unit) ==
    { p \in Known(ls) : ls[p[1]].items[p[2]].name = name /\ ls[p[1]].items[p[2]].unit = unit }

\* The sum of purchasedAmount over a set of items of a Ledger
RECURSIVE QuantityTotal(_, _)
QuantityTotal(ls, ps) ==
    IF ps = {} THEN 0
    ELSE LET p == CHOOSE q \in ps : TRUE
         IN  ls[p[1]].items[p[2]].purchasedAmount + QuantityTotal(ls, ps \ {p})

\* The sum of a numeric field over the elements of a sequence of records
FieldTotal(s, key) ==
    LET Sum[i \in 0..Len(s)] == IF i = 0 THEN 0 ELSE Sum[i - 1] + s[i][key]
    IN  Sum[Len(s)]

\* C18: getAllKnownItems returns exactly one MasterItem per distinct (name, unit) among
\* the Bought items having both purchasedAmount and paidPrice; its totalQuantity is the
\* sum of their purchasedAmount, its totalSpend the sum of their paidPrice and its
\* purchaseCount their number; over all MasterItems purchaseCount adds up to the
\* number of such items and totalSpend to their total paidPrice.
C18_OneMasterItemPerNameAndUnit ==
    op.name = "getAllKnownItems" =>
        LET ret == op.ret
            keys == { <<lists[p[1]].items[p[2]].name, lists[p[1]].items[p[2]].unit>> :
                        p \in Known(lists) }
        IN  /\ Len(ret) = Cardinality(keys)
            /\ \A key \in keys :
                   \E k \in DOMAIN ret :
                       LET ps == KnownOf(lists, key[1], key[2])
                       IN  /\ ret[k].name = key[1]
                           /\ ret[k].unit = key[2]
                           /\ ret[k].totalQuantity = QuantityTotal(lists, ps)
                           /\ ret[k].totalSpend = PaidTotal(lists, ps)
                           /\ ret[k].purchaseCount = Cardinality(ps)
            /\ FieldTotal(ret, "purchaseCount") = Cardinality(Known(lists))
            /\ FieldTotal(ret, "totalSpend") = PaidTotal(lists, Known(lists))

\* milk by the kilogram bought twice and milk by the litre once: two MasterItems
C18_Witness_SameNameTwoUnits ==
    /\ op.name = "getAllKnownItems"
    /\ Len(op.ret) = 2
    /\ \E k \in DOMAIN op.ret : /\ op.ret[k].name = "milk" /\ op.ret[k].unit = "kg"
                                /\ op.ret[k].purchaseCount = 2
                                /\ op.ret[k].totalSpend = 80
    /\ \E k \in DOMAIN op.ret : op.ret[k].name = "milk" /\ op.ret[k].unit = "l"

\* p comes before q, or is q, in list/item order
Before(p, q) == p[1] < q[1] \/ (p[1] = q[1] /\ p[2] <= q[2])

\* of a set of purchases, the one of the latest list date, the last encountered of these
LatestLast(ls, ps) ==
    CHOOSE p \in ps :
        \A q \in ps : \/ ls[q[1]].createdAt < ls[p[1]].createdAt
                      \/ (ls[q[1]].createdAt = ls[p[1]].createdAt /\ Before(q, p))

\* q is the quotient a / b
IsQuotient(q, a, b) == b # 0 /\ q[2] # 0 /\ q[1] * b = a * q[2]

\* C19 as stated: lastPricePerUnit and category of each MasterItem come from the
\* qualifying purchase of its (name, unit) with the latest list date, the last
\* encountered when several share that date, and lastPricePerUnit is that purchase's
\* paidPrice divided by its purchasedAmount.
C19_LastPriceIsPaidPriceOverAmount ==
    op.name = "getAllKnownItems" =>
        \A k \in DOMAIN op.ret :
            LET ps == KnownOf(lists, op.ret[k].name, op.ret[k].unit)
                p == LatestLast(lists, ps)
                item == lists[p[1]].items[p[2]]
            IN  /\ ps # {}
                /\ op.ret[k].category = item.category
                /\ IsQuotient(op.ret[k].lastPricePerUnit, item.paidPrice, item.purchasedAmount)

\* C19 amended: as above, with lastPricePerUnit the paidPrice divided by the
\* purchasedAmount when that is not 0, and the paidPrice itself when it is 0.
C19_LastPriceOverAmountOrOne ==
    op.name = "getAllKnownItems" =>
        \A k \in DOMAIN op.ret :
            LET ps == KnownOf(lists, op.ret[k].name, op.ret[k].unit)
                p == LatestLast(lists, ps)
                item == lists[p[1]].items[p[2]]
            IN  /\ ps # {}
                /\ op.ret[k].category = item.category
                /\ IsQuotient(op.ret[k].lastPricePerUnit, item.paidPrice,
                              IF item.purchasedAmount = 0 THEN 1 ELSE item.purchasedAmount)

\* two purchases of milk of the latest date in different categories: the later one's
\* category and price per unit are reported
C19_Witness_TieTakesLaterPurchase ==
    /\ op.name = "getAllKnownItems"
    /\ \E k \in DOMAIN op.ret :
           LET ps == KnownOf(lists, op.ret[k].name, op.ret[k].unit)
               p == LatestLast(lists, ps)
           IN  /\ \E q \in ps : /\ q # p
                                /\ lists[q[1]].createdAt = lists[p[1]].createdAt
                                /\ lists[q[1]].items[q[2]].category #
                                       lists[p[1]].items[p[2]].category
                                /\ lists[q[1]].items[q[2]].paidPrice = 30
               /\ op.ret[k].category = lists[p[1]].items[p[2]].category
               /\ op.ret[k].lastPricePerUnit = <<50, 2>>

\* a result r of getLatestPurchaseInfo reports one of the purchases ps of the latest date
LatestOf(r, ls, ps) ==
    IF ps = {} THEN r = EmptyMap
    ELSE /\ r # EmptyMap
         /\ \E p \in ps :
                LET item == ls[p[1]].items[p[2]]
                IN  /\ \A q \in ps : ls[q[1]].createdAt <= ls[p[1]].createdAt
                    /\ IsQuotient(r.pricePerUnit, item.paidPrice, item.purchasedAmount)
                    /\ r.vendorId = item.vendorId
                    /\ r.lastAmount = item.purchasedAmount

\* C20: getLatestPurchaseInfo(name, unit) considers every Bought item of (name, unit)
\* that has both paidPrice and purchasedAmount, selects one of the maximum list date
\* and returns its paidPrice / purchasedAmount, its vendorId and its purchasedAmount;
\* it returns the empty object only when there is no such item.
C20_LatestAmongPurchasesWithPriceAndAmount ==
    op.name = "getLatestPurchaseInfo" =>
        LatestOf(op.ret, lists, KnownOf(lists, op.args.name, op.args.unit))

\* the same over the purchases whose paidPrice and purchasedAmount are both not zero
LatestAmongNonZeroPurchases ==
    op.name = "getLatestPurchaseInfo" =>
        LatestOf(op.ret, lists,
                 { p \in KnownOf(lists, op.args.name, op.args.unit) :
                     /\ lists[p[1]].items[p[2]].paidPrice # 0
                     /\ lists[p[1]].items[p[2]].purchasedAmount # 0 })

\* C21: updateMasterItem(origName, origUnit, updates) sets name, unit and category to
\* the updated values on every item of every list whose (name, unit) is
\* (origName, origUnit) and leaves every other item and every other field as it was;
\* it sets itemInfoMap[updates.name] to the new {unit, category}, removes the entry of
\* origName only when updates.name differs from origName and leaves every other entry
\* of itemInfoMap, and the rest of the Ledger, as it was.
C21_UpdateMasterItemRewritesMatchingItems ==
    [][Called("updateMasterItem")
        => LET a == op'.args
               fields == {"name", "unit", "category"}
           IN  /\ DOMAIN lists' = DOMAIN lists
               /\ \A i \in DOMAIN lists :
                    /\ Rest(lists'[i], "items") = Rest(lists[i], "items")
                    /\ DOMAIN lists'[i].items = DOMAIN lists[i].items
                    /\ \A k \in DOMAIN lists[i].items :
                         LET old == lists[i].items[k]
                             new == lists'[i].items[k]
                         IN  IF old.name = a.originalName /\ old.unit = a.originalUnit
                             THEN /\ new.name = a.updates.name
                                  /\ new.unit = a.updates.unit
                                  /\ new.category = a.updates.category
                                  /\ DOMAIN new = DOMAIN old \cup fields
                                  /\ \A f \in DOMAIN old \ fields : new[f] = old[f]
                             ELSE new = old
               /\ a.updates.name \in DOMAIN itemInfoMap'
               /\ itemInfoMap'[a.updates.name] =
                      [unit |-> a.updates.unit, category |-> a.updates.category]
               /\ \A n \in (DOMAIN itemInfoMap \cup DOMAIN itemInfoMap') \ {a.updates.name} :
                      IF n = a.originalName THEN n \notin DOMAIN itemInfoMap'
                      ELSE /\ n \in DOMAIN itemInfoMap
                           /\ n \in DOMAIN itemInfoMap'
                           /\ itemInfoMap'[n] = itemInfoMap[n]
               /\ vendors' = vendors
               /\ customCategories' = customCategories
               /\ categoryVendorMap' = categoryVendorMap]_vars

\* milk by the kilogram, bought for 50, was renamed to tea: its itemInfoMap entry moved
\* and milk by the litre is still milk
C21_Witness_RenamedAcrossLists ==
    /\ op.name = "updateMasterItem"
    /\ op.args.updates.name = "tea"
    /\ "milk" \notin DOMAIN itemInfoMap
    /\ "tea" \in DOMAIN itemInfoMap
    /\ \E i \in DOMAIN lists : \E k \in DOMAIN lists[i].items :
          /\ lists[i].items[k].name = "tea"
          /\ lists[i].items[k].status = Bought
          /\ lists[i].items[k].paidPrice = 50
    /\ \E i \in DOMAIN lists : \E k \in DOMAIN lists[i].items :
          lists[i].items[k].name = "milk" /\ lists[i].items[k].unit = "liter"

\* C22: the mutations made, each with a session and no hydration in flight, since the
\* timer last fired and before it fires again (each within the delay of the one before)
\* get exactly one save: none is issued between them, and the firing after the last of
\* them issues one whose payload is the Ledger as that last mutation left it.
C22_BurstCoalescedIntoOneSave ==
    /\ AutosaveIssued => op.name = "debounceTimer"
    /\ (op.name = "debounceTimer" /\ op.burst.some /\ op.burst.inSession)
           => (AutosaveIssued /\ saved.data = op.burst.ledger)

\* two or more mutations of a session were saved at once, with a list in the payload
C22_Witness_SeveralMutationsOneSave ==
    /\ op.name = "debounceTimer"
    /\ op.burst.several
    /\ op.burst.inSession
    /\ AutosaveIssued
    /\ saved.data.lists # <<>>

\* a vendor name trimmed and case-folded
Normalized(name) == ToLowerCase(Trim(name))

\* the vendors whose normalized name is that of `name`
Namesakes(vs, name) == { i \in DOMAIN vs : Normalized(vs[i].name) = Normalized(name) }

\* C23: findOrCreateVendor(n) returns undefined and creates no vendor when n is empty or
\* whitespace; it returns the id of an existing vendor and creates none whenever some
\* vendor's name equals n after trimming and case folding; so, after any sequence of
\* addVendor, updateVendor, findOrCreateVendor and addOcrPurchase, a vendor that
\* findOrCreateVendor adds (called directly or by addOcrPurchase) never has the
\* trimmed, case-folded name of a vendor already present.
C23_VendorResolvedByNormalizedName ==
    [][(Called("findOrCreateVendor") \/ Called("addOcrPurchase"))
        => LET n == op'.args.vendorName
           IN  /\ (Called("findOrCreateVendor") /\ Trim(n) = "")
                      => (op'.ret = Undefined /\ vendors' = vendors)
               /\ (Called("findOrCreateVendor") /\ Trim(n) # "" /\ Namesakes(vendors, n) # {})
                      => /\ vendors' = vendors
                         /\ \E i \in Namesakes(vendors, n) : op'.ret = vendors[i].id
               /\ \A k \in DOMAIN vendors' \ DOMAIN vendors :
                      Namesakes(vendors, vendors'[k].name) = {}]_vars

\* C24: after any sequence of addItemFromSuggestion and addOcrPurchase calls, the clock
\* possibly returning the same value for calls made in quick succession, no list holds
\* two items with the same id.
C24_ItemIdsUniqueInList ==
    \A i \in DOMAIN lists :
        \A k, l \in DOMAIN lists[i].items :
            k # l => lists[i].items[k].id # lists[i].items[l].id

\* The sum of the elements lo..hi of a sequence of numbers, by halves
RECURSIVE TotalBetween(_, _, _)
TotalBetween(s, lo, hi) ==
    IF lo > hi THEN 0
    ELSE IF lo = hi THEN s[lo]
    ELSE TotalBetween(s, lo, (lo + hi) \div 2) + TotalBetween(s, (lo + hi) \div 2 + 1, hi)

\* The sum of the elements of a sequence of numbers
Total(s) == TotalBetween(s, 1, Len(s))

\* C25: in every result of getSummaryData that is not null, the daily time series has
\* exactly one label/value pair for each calendar day of the period's range, in
\* chronological order, the days without purchases have the value 0 and the values sum
\* to kpis.totalSpend; the values of the category breakdown are in descending order
\* and sum to kpis.totalSpend.
C25_SeriesCoverRangeAndSumToTotal ==
    (op.name = "getSummaryData" /\ IsSummary(op.ret)) =>
        LET ret == op.ret
            series == ret.charts.spendingOverTime
            byCategory == ret.charts.spendingByCategory
            firstDay == DayOf(ret.period.startDate)
            lastDay == DayOf(ret.period.endDate)
            ps == Priced(lists, ret.period.startDate, ret.period.endDate)
        IN  /\ DOMAIN series.labels = 1..(lastDay - firstDay + 1)
            /\ DOMAIN series.data = DOMAIN series.labels
            /\ \A k \in DOMAIN series.labels :
                   /\ series.labels[k] = firstDay + k - 1
                   /\ (\A p \in ps : DayOf(lists[p[1]].createdAt) # series.labels[k])
                          => series.data[k] = 0
            /\ Total(series.data) = ret.kpis.totalSpend
            /\ DOMAIN byCategory.data = DOMAIN byCategory.labels
            /\ \A k \in DOMAIN byCategory.data :
                   k > 1 => byCategory.data[k - 1] >= byCategory.data[k]
            /\ Total(byCategory.data) = ret.kpis.totalSpend

\* a week's summary with a day of purchases, a day without, and three categories
C25_Witness_WeekWithEmptyDays ==
    /\ op.name = "getSummaryData"
    /\ op.args.period = "7d"
    /\ IsSummary(op.ret)
    /\ Len(op.ret.charts.spendingOverTime.labels) = 7
    /\ \E k \in 1..7 : op.ret.charts.spendingOverTime.data[k] = 0
    /\ \E k \in 1..7 : op.ret.charts.spendingOverTime.data[k] = 100
    /\ op.ret.charts.spendingByCategory.data = <<50, 30, 20>>

\* the step is an addOcrPurchase whose date parsed
OcrPurchased == Called("addOcrPurchase") /\ op'.ret # InvalidDate

\* the items `new` are the Bought items of the batch `lines` bought from vendor v
ItemsOfBatch(new, lines, args, v) ==
    /\ DOMAIN new = DOMAIN lines
    /\ \A k \in DOMAIN lines :
          /\ new[k].status = Bought
          /\ new[k].name = lines[k].name
          /\ new[k].paidPrice = lines[k].price
          /\ new[k].purchasedAmount = lines[k].quantity
          /\ new[k].paymentStatus = args.paymentStatus
          /\ new[k].paymentMethod = args.paymentMethod
          /\ new[k].vendorId = v

\* the vendor id addOcrPurchase resolved vendorName to is v
ResolvedTo(vs, vendorName, v) ==
    IF Trim(vendorName) = "" THEN v = Undefined
    ELSE \E i \in DOMAIN vs : vs[i].id = v /\ Normalized(vs[i].name) = Normalized(vendorName)

\* C26: an addOcrPurchase that succeeds, with a batch of n lines dated d, leaves exactly
\* one list for d, whose items are its previous items in their order followed by n new
\* Bought items, one per line in batch order, with the given paymentStatus and
\* paymentMethod and the resolved vendorId; every other list is unchanged, itemInfoMap
\* maps the trimmed name of each batch item to its (unit, category) and, when a vendor
\* was resolved, categoryVendorMap maps the category of each batch item to that vendor.
C26_OcrPurchaseAppendsBatchToOneList ==
    [][OcrPurchased
        => LET args == op'.args
               lines == args.ocrResult.items
               listId == toJalaliDateString(parseJalaliDate(args.ocrResult.date))
               before == { i \in DOMAIN lists : lists[i].id = listId }
               after == { i \in DOMAIN lists' : lists'[i].id = listId }
           IN  /\ Cardinality(after) = 1
               /\ \A i \in after :
                     LET previous == IF i \in before THEN lists[i].items ELSE <<>>
                         new == SubSeq(lists'[i].items, Len(previous) + 1,
                                       Len(lists'[i].items))
                     IN  /\ SubSeq(lists'[i].items, 1, Len(previous)) = previous
                         /\ \E v \in {new[1].vendorId} :
                               /\ ItemsOfBatch(new, lines, args, v)
                               /\ ResolvedTo(vendors', args.vendorName, v)
                               /\ v # Undefined =>
                                     \A k \in DOMAIN new :
                                         /\ new[k].category \in DOMAIN categoryVendorMap'
                                         /\ categoryVendorMap'[new[k].category] = v
                         /\ \A k \in DOMAIN new :
                               /\ Trim(new[k].name) \in DOMAIN itemInfoMap'
                               /\ itemInfoMap'[Trim(new[k].name)] =
                                      [unit |-> new[k].unit, category |-> new[k].category]
               /\ \A i \in DOMAIN lists : i \notin before => lists'[i] = lists[i]
               /\ Len(lists') = Len(lists) + (IF before = {} THEN 1 ELSE 0)]_vars

QueryNames ==
    {"allCategories", "getKnownItemNames", "getAllKnownItems", "getLatestPurchaseInfo",
     "getSmartSuggestions", "getPendingPayments", "getRecentPurchases", "getExpenseForecast",
     "getSummaryData", "exportData"}

\* C27: every query is read-only: after it returns the Ledger is the Ledger before the
\* call, the order of the lists included.
C27_QueriesLeaveLedgerUnchanged ==
    [][op'.name \in QueryNames => Ledger' = Ledger]_vars

\* the same for every query but getRecentPurchases
QueriesButRecentPurchasesReadOnly ==
    [][(op'.name \in QueryNames \ {"getRecentPurchases"}) => Ledger' = Ledger]_vars

\* C28: the payload of every save issued by the debounced autosave is the Ledger of the
\* store at the instant the save is issued, also when importData or hydrateFromCloud
\* replaced the Ledger after the mutation that scheduled the save.
C28_AutosaveWritesCurrentLedger ==
    AutosaveIssued => saved.data = Ledger

\* C29: after logout() and until the next login, as long as no mutation is invoked,
\* currentUser is null and the Ledger stays empty, also when a fetch of
\* hydrateFromCloud started before the logout completes after it.
C29_LoggedOutLedgerStaysEmpty ==
    quiet => (currentUser = Null /\ Ledger = emptyState)

PreferredVendorIds == {categoryVendorMap[c] : c \in DOMAIN categoryVendorMap}

\* C30: in every Ledger reached from the empty one by addVendor, findOrCreateVendor,
\* addOcrPurchase, updateCategoryVendorMap (with ids of existing vendors) and deleteVendor,
\* every vendor id stored as a value of categoryVendorMap is the id of a vendor in vendors.
C30_CategoryVendorMapRefersToVendors ==
    \A vendorId \in PreferredVendorIds : \E i \in DOMAIN vendors : vendors[i].id = vendorId

\* the same as long as no vendor was deleted
NoDanglingPreferenceWithoutDelete ==
    [][op'.name # "deleteVendor" =>
          ((\A vendorId \in PreferredVendorIds : \E i \in DOMAIN vendors : vendors[i].id = vendorId)
           => (\A c \in DOMAIN categoryVendorMap' :
                  \E i \in DOMAIN vendors' : vendors'[i].id = categoryVendorMap'[c]))]_vars

============================================================================
